---- MODULE Spec2Model ----
(***************************************************************************)
(* A model of the port scanner's scan-session pipeline: the history store  *)
(* (storage.py, both backends), the scan session controller and the banner *)
(* prober (scanner.py), and the run driver (main.py).                       *)
(*                                                                         *)
(* The specifications of the module:                                       *)
(*   Spec       - one caller applies the same sequence of store operations *)
(*                to a SQLiteStorage and to a JSONStorage, side by side;   *)
(*   SpecConc   - several callers run save_scan_session concurrently on    *)
(*                one store, statement by statement, and may fail or crash;*)
(*   SpecScan   - successive run_scan executions on one store;             *)
(*   SpecScanFaults - SpecScan with saves that return False or raise;      *)
(*   SpecNotify - configuration, manager construction and notify_all;      *)
(*   SpecParse  - _parse_masscan_output applied to output files;           *)
(*   SpecOrder  - save_scan_session applied to a result list and to a      *)
(*                permutation of it;                                       *)
(*   SpecLive   - run_scan with its waits, under fair scheduling;          *)
(*   SpecRead   - check_is_new_result on stores whose read can fail;       *)
(*   SpecPrune  - saves that follow a delete_old_results call;             *)
(*   SpecAnalyze - BannerAnalyzer.analyze applied to banners;              *)
(*   SpecProbe  - _get_banner_for_port against different responses.        *)
(***************************************************************************)
EXTENDS Integers, Sequences, FiniteSets, TLC

(***************************************************************************)
(* Bounds of the model.                                                    *)
(***************************************************************************)
\* the clock takes the values 0..MaxTime
MaxTime == 1
\* longest result list of one session
MaxResults == 2
(***************************************************************************)
(* Values.                                                                 *)
(***************************************************************************)
\* Python's None for an optional string (service, banner, scan_id)
None == "<None>"

\* an optional datetime (end_time): <<>> is None, <<t>> is the time t
NoTime == << >>

\* the ids uuid4 hands out, in this order (every id is fresh)
SessionIds == <<"s1", "s2">>

Ports == {22, 80}

\* the (ip, port) pairs the scan engine can report
Pairs == {<<"10.0.0.1", 22>>, <<"10.0.0.1", 80>>, <<"10.0.0.2", 22>>}

Targets == <<"10.0.0.0/24">>

\* utils.py COMMON_SERVICES, restricted to Ports
COMMON_SERVICES == [p \in Ports |-> IF p = 22 THEN "SSH" ELSE "HTTP"]

\* utils.py get_service_name(port) with the default empty banner
get_service_name(port) ==
    IF port \in DOMAIN COMMON_SERVICES THEN COMMON_SERVICES[port] ELSE "Unknown"

\* models.py ScanResult as _parse_masscan_output builds it (scan_id is never
\* set by the scanner; is_new defaults to True)
ScanResult(ip, port, service, banner, t) ==
    [ip |-> ip, port |-> port, service |-> service, banner |-> banner,
     is_new |-> TRUE, timestamp |-> t, scan_id |-> None]

\* models.py ScanSession
ScanSession(id, status, t, results, errors) ==
    [id |-> id, status |-> status, start_time |-> t, end_time |-> <<t>>,
     targets |-> Targets, results |-> results,
     total_results |-> Len(results), new_results |-> 0, errors |-> errors]

\* len([r for r in results if r.is_new])
CountNew(results) == Len(SelectSeq(results, LAMBDA r : r.is_new))

\* is there a row for (ip, port)
HasPair(rows, ip, port) ==
    \E k \in 1..Len(rows) : rows[k].ip = ip /\ rows[k].port = port

\* the row of a result, as both backends write it (the generated uuid4 row
\* id of the SQLite table is never read back and is left out)
ResultRow(r, sid) ==
    [scan_id |-> sid, ip |-> r.ip, port |-> r.port, service |-> r.service,
     banner |-> r.banner, is_new |-> r.is_new, timestamp |-> r.timestamp]

\* the ScanResult a reader builds from a row
RowResult(row) ==
    [ip |-> row.ip, port |-> row.port, service |-> row.service,
     banner |-> row.banner, is_new |-> row.is_new,
     timestamp |-> row.timestamp, scan_id |-> row.scan_id]

EmptyData == [sessions |-> << >>, results |-> << >>]

(***************************************************************************)
(* SQLiteStorage.  A database is [sessions, results], two sequences of     *)
(* rows in insertion order.                                                *)
(***************************************************************************)
\* the scan_sessions row written by save_scan_session
Sq_SessionRow(s) ==
    [id |-> s.id, status |-> s.status, start_time |-> s.start_time,
     end_time |-> s.end_time, targets |-> s.targets,
     total_results |-> s.total_results, new_results |-> s.new_results,
     errors |-> s.errors]

\* a plain INSERT into a scan_sessions table without a primary key
Sq_AppendSession(db, s) ==
    [db EXCEPT !.sessions = Append(db.sessions, Sq_SessionRow(s))]

\* INSERT OR REPLACE INTO scan_sessions: id is the primary key
Sq_UpsertSession(db, s) ==
    [db EXCEPT !.sessions =
        Append(SelectSeq(db.sessions, LAMBDA r : r.id # s.id), Sq_SessionRow(s))]

\* scan_results created without its UNIQUE(ip, port) constraint
Sq_NoUniqueConstraint(rows, r) == FALSE

\* a table whose uniqueness constraint is on the ip column alone
Sq_UniqueOnIp(rows, r) == \E k \in 1..Len(rows) : rows[k].ip = r.ip

\* UNIQUE(ip, port) of scan_results: does inserting r raise IntegrityError
Sq_UniqueViolation(rows, r) == HasPair(rows, r.ip, r.port)

\* a loop turn that flags every result as seen before, inserted or not
Sq_InsertResultAsSeen(db, r, sid) ==
    IF Sq_UniqueViolation(db.results, r)
    THEN [db |-> db, r |-> [r EXCEPT !.is_new = FALSE]]
    ELSE [db |-> [db EXCEPT !.results = Append(@, ResultRow([r EXCEPT !.is_new = FALSE], sid))],
          r |-> [r EXCEPT !.is_new = FALSE]]

\* one turn of the loop over session.results: INSERT INTO scan_results, and
\* on IntegrityError result.is_new = False
Sq_InsertResult(db, r, sid) ==
    IF Sq_UniqueViolation(db.results, r)
    THEN [db |-> db, r |-> [r EXCEPT !.is_new = FALSE]]
    ELSE [db |-> [db EXCEPT !.results = Append(@, ResultRow(r, sid))], r |-> r]

RECURSIVE Sq_InsertResults(_, _, _, _)
Sq_InsertResults(db, results, sid, i) ==
    IF i > Len(results) THEN [db |-> db, results |-> results]
    ELSE LET one == Sq_InsertResult(db, results[i], sid)
         IN  Sq_InsertResults(one.db, [results EXCEPT ![i] = one.r], sid, i + 1)

\* save_scan_session run alone and without an I/O error: the committed
\* database, the return value and the session object as the call leaves it
Sq_save_scan_session(db, s) ==
    LET done == Sq_InsertResults(Sq_UpsertSession(db, s), s.results, s.id, 1)
    IN  [db |-> done.db, ret |-> TRUE,
         session |-> [s EXCEPT !.results = done.results]]

\* save_scan_session in which a statement raises inside the try block after
\* i results were handled (database is locked, disk I/O error): rollback,
\* return False; the is_new assignments already made stay
Sq_save_scan_session_failing(db, s, i) ==
    LET done == Sq_InsertResults(Sq_UpsertSession(db, s), SubSeq(s.results, 1, i), s.id, 1)
    IN  [db |-> db, ret |-> FALSE,
         session |-> [s EXCEPT !.results =
                         done.results \o SubSeq(s.results, i + 1, Len(s.results))]]

\* a reader whose second query has no WHERE clause: every stored row
Sq_get_scan_session_all_rows(db, id) ==
    LET found == SelectSeq(db.sessions, LAMBDA r : r.id = id)
    IN  IF found = << >> THEN << >>
        ELSE <<[id |-> found[1].id, status |-> found[1].status,
                start_time |-> found[1].start_time, end_time |-> found[1].end_time,
                targets |-> found[1].targets,
                total_results |-> found[1].total_results,
                new_results |-> found[1].new_results, errors |-> found[1].errors,
                results |-> [k \in 1..Len(db.results) |-> RowResult(db.results[k])]]>>

Sq_get_scan_session(db, id) ==
    LET found == SelectSeq(db.sessions, LAMBDA r : r.id = id)
    IN  IF found = << >> THEN << >>
        ELSE LET row == found[1]
                 mine == SelectSeq(db.results, LAMBDA r : r.scan_id = id)
             IN  <<[id |-> row.id, status |-> row.status,
                    start_time |-> row.start_time, end_time |-> row.end_time,
                    targets |-> row.targets,
                    total_results |-> row.total_results,
                    new_results |-> row.new_results, errors |-> row.errors,
                    results |-> [k \in 1..Len(mine) |-> RowResult(mine[k])]]>>

Sq_check_is_new_result(db, r) == ~HasPair(db.results, r.ip, r.port)

\* check_is_new_result when the SELECT raises (database is locked, disk I/O
\* error, no such table): the except branch returns True
Sq_check_is_new_result_failing(db, r) == TRUE

\* DELETE FROM scan_results WHERE timestamp < cutoff, cutoff = now - days
Sq_delete_old_results(db, t, days) ==
    LET kept == SelectSeq(db.results, LAMBDA r : ~(r.timestamp < t - days))
    IN  [db |-> [db EXCEPT !.results = kept],
         ret |-> Len(db.results) - Len(kept)]

\* the orders in which a query can return n rows
Orders(n) == {f \in [1..n -> 1..n] : \A i, j \in 1..n : f[i] = f[j] => i = j}

\* get_all_results: SELECT * FROM scan_results ORDER BY timestamp DESC, the
\* lists the query can return (rows of equal timestamp come in any order)
Sq_get_all_results(db) ==
    LET rows == db.results
        n == Len(rows)
    IN  {[i \in 1..n |-> RowResult(rows[f[i]])] :
            f \in {g \in Orders(n) :
                      \A i \in 1..(n - 1) :
                          rows[g[i]].timestamp >= rows[g[i + 1]].timestamp}}

\* LIMIT 10 of the popular ports query
PopularPortsLimit == 10

RowPorts(rows) == {rows[k].port : k \in 1..Len(rows)}

PortCount(rows, p) == Cardinality({k \in 1..Len(rows) : rows[k].port = p})

\* the ports of the LIMIT most frequent rows, with their counts
PopularPorts(rows) ==
    LET ps == RowPorts(rows)
        top == IF Cardinality(ps) <= PopularPortsLimit THEN ps
               ELSE CHOOSE S \in SUBSET ps :
                      /\ Cardinality(S) = PopularPortsLimit
                      /\ \A p \in S, q \in ps \ S :
                            PortCount(rows, p) >= PortCount(rows, q)
    IN  [p \in top |-> PortCount(rows, p)]

Sq_get_statistics(db) ==
    [total_results |-> Len(db.results),
     unique_hosts |-> Cardinality({db.results[k].ip : k \in 1..Len(db.results)}),
     total_scans |-> Len(SelectSeq(db.sessions, LAMBDA r : r.status = "completed")),
     popular_ports |-> PopularPorts(db.results)]

(***************************************************************************)
(* JSONStorage.  The file is [ok, data]: ok is false while the file does   *)
(* not hold a complete JSON document (truncated, partly written).          *)
(***************************************************************************)
\* _load_data: any error reading or parsing yields the empty document
Js_load_data(file) == IF file.ok THEN file.data ELSE EmptyData

\* session_dict of save_scan_session: errors is not written
Js_SessionDict(s) ==
    [id |-> s.id, status |-> s.status, start_time |-> s.start_time,
     end_time |-> s.end_time, targets |-> s.targets,
     total_results |-> s.total_results, new_results |-> s.new_results]

Js_UpsertSession(data, s) ==
    [data EXCEPT !.sessions =
        Append(SelectSeq(data.sessions, LAMBDA d : d.id # s.id), Js_SessionDict(s))]

\* a save loop without the duplicate check
Js_NoDuplicateCheck(rows, r) == FALSE

\* exists = any(r['ip'] == result.ip and r['port'] == result.port ...)
Js_Exists(rows, r) == HasPair(rows, r.ip, r.port)

\* one turn of the loop over session.results; the result object is not
\* assigned to
Js_AppendResult(data, r, sid) ==
    IF Js_Exists(data.results, r)
    THEN [data |-> data, r |-> r]
    ELSE [data |-> [data EXCEPT !.results = Append(@, ResultRow(r, sid))], r |-> r]

RECURSIVE Js_AppendResults(_, _, _, _)
Js_AppendResults(data, results, sid, i) ==
    IF i > Len(results) THEN [data |-> data, results |-> results]
    ELSE LET one == Js_AppendResult(data, results[i], sid)
         IN  Js_AppendResults(one.data, [results EXCEPT ![i] = one.r], sid, i + 1)

\* the document save_scan_session builds in memory from what it loaded
Js_BuildData(data, s) ==
    Js_AppendResults(Js_UpsertSession(data, s), s.results, s.id, 1)

\* save_scan_session run alone and without an I/O error
Js_save_scan_session(file, s) ==
    LET done == Js_BuildData(Js_load_data(file), s)
    IN  [file |-> [ok |-> TRUE, data |-> done.data], ret |-> TRUE,
         session |-> [s EXCEPT !.results = done.results]]

\* save_scan_session in which _save_data fails: open raises and the file is
\* as it was, or json.dump raises after open has truncated it
Js_save_scan_session_failing(file, s, truncated) ==
    [file |-> IF truncated THEN [ok |-> FALSE, data |-> EmptyData] ELSE file,
     ret |-> FALSE, session |-> s]

\* _load_data when open or json.load raises on a file that holds a
\* document: the except branch returns the empty document
Js_load_data_failing(file) == EmptyData

\* save_scan_session in which _load_data could not read the file: the
\* document is built from the empty one and _save_data writes it over the file
Js_save_scan_session_unread(file, s) ==
    LET done == Js_BuildData(Js_load_data_failing(file), s)
    IN  [file |-> [ok |-> TRUE, data |-> done.data], ret |-> TRUE,
         session |-> [s EXCEPT !.results = done.results]]

Js_get_scan_session(file, id) ==
    LET data == Js_load_data(file)
        found == SelectSeq(data.sessions, LAMBDA d : d.id = id)
    IN  IF found = << >> THEN << >>
        ELSE LET d == found[1]
                 mine == SelectSeq(data.results, LAMBDA r : r.scan_id = id)
             IN  <<[id |-> d.id, status |-> d.status,
                    start_time |-> d.start_time, end_time |-> d.end_time,
                    targets |-> d.targets,
                    total_results |-> d.total_results,
                    new_results |-> d.new_results, errors |-> << >>,
                    results |-> [k \in 1..Len(mine) |-> RowResult(mine[k])]]>>

Js_check_is_new_result(file, r) ==
    ~HasPair(Js_load_data(file).results, r.ip, r.port)

\* keeps the rows with timestamp > cutoff, cutoff = now - days
Js_delete_old_results(file, t, days) ==
    LET data == Js_load_data(file)
        kept == SelectSeq(data.results, LAMBDA r : r.timestamp > t - days)
    IN  [file |-> [ok |-> TRUE, data |-> [data EXCEPT !.results = kept]],
         ret |-> Len(data.results) - Len(kept)]

\* get_all_results: the rows of the document, in the order of the file
Js_get_all_results(file) ==
    LET rows == Js_load_data(file).results
    IN  [i \in 1..Len(rows) |-> RowResult(rows[i])]

Js_get_statistics(file) ==
    LET data == Js_load_data(file)
    IN  [total_results |-> Len(data.results),
         unique_hosts |->
            Cardinality({data.results[k].ip : k \in 1..Len(data.results)}),
         total_scans |-> Len(data.sessions),
         popular_ports |-> PopularPorts(data.results)]

(***************************************************************************)
(* Notifications: config.py validation, notify.py channels and manager.    *)
(***************************************************************************)
\* the values a string field of the configuration can take: missing, empty, set
FieldValues == {None, "", "v"}

\* the values of the optional integer smtp_port: missing, 0, 587
PortValues == {<< >>, <<0>>, <<587>>}

\* bool(v) of an optional string
Truthy(v) == v # None /\ v # ""

\* bool(v) of an optional integer
TruthyInt(v) == v # << >> /\ v[1] # 0

\* the notifications sections a config.yaml can hold
TelegramConfigs == [enabled : BOOLEAN, token : FieldValues, chat_id : FieldValues]

EmailConfigs ==
    [enabled : BOOLEAN, smtp_server : {None, "v"}, smtp_port : PortValues,
     sender_email : {"v"}, sender_password : {"", "v"}, recipient : {"v"}]

DiscordConfigs == [enabled : BOOLEAN, webhook_url : FieldValues]

NotificationsConfigs ==
    [telegram : TelegramConfigs, email : EmailConfigs, discord : DiscordConfigs]

\* config.py TelegramNotifyConfig.validate_if_enabled: does validation pass
validate_if_enabled(t) == ~(t.enabled /\ (~Truthy(t.token) \/ ~Truthy(t.chat_id)))

\* notify.py TelegramNotifier.__init__
TelegramNotifier(token, chat_id) ==
    [kind |-> "telegram", enabled |-> Truthy(token) /\ Truthy(chat_id)]

\* notify.py EmailNotifier.__init__
EmailNotifier(smtp_server, smtp_port, sender_email, sender_password, recipient) ==
    [kind |-> "email",
     enabled |-> /\ Truthy(smtp_server) /\ TruthyInt(smtp_port) /\ Truthy(sender_email)
                 /\ Truthy(sender_password) /\ Truthy(recipient)]

\* notify.py DiscordNotifier.__init__
DiscordNotifier(webhook_url) == [kind |-> "discord", enabled |-> Truthy(webhook_url)]

is_enabled(notifier) == notifier.enabled

\* a manager that registers whatever it is handed
add_notifier_unchecked(ns, notifier) == Append(ns, notifier)

\* NotificationManager.add_notifier
add_notifier(ns, notifier) == IF is_enabled(notifier) THEN Append(ns, notifier) ELSE ns

\* notify.py create_notification_manager: the manager's notifiers
create_notification_manager(c) ==
    LET m1 == IF c.telegram.enabled
              THEN add_notifier(<< >>, TelegramNotifier(c.telegram.token, c.telegram.chat_id))
              ELSE << >>
        m2 == IF c.email.enabled
              THEN add_notifier(m1, EmailNotifier(c.email.smtp_server, c.email.smtp_port,
                                                  c.email.sender_email,
                                                  c.email.sender_password, c.email.recipient))
              ELSE m1
    IN  IF c.discord.enabled
        THEN add_notifier(m2, DiscordNotifier(c.discord.webhook_url))
        ELSE m2

\* how one send can end, as gather records it: True, False, an exception
SendOutcomes == {"true", "false", "raises"}

\* a fan-out that counts every result that is not False
notify_all_truthy(ns, outs) ==
    [raised |-> FALSE,
     value |-> Cardinality({k \in 1..Len(ns) : outs[k] # "false"}),
     sends |-> [k \in 1..Len(ns) |-> 1]]

\* a fan-out that sends once more on every channel that did not succeed
notify_all_retrying(ns, outs) ==
    [raised |-> FALSE,
     value |-> Cardinality({k \in 1..Len(ns) : outs[k] = "true"}),
     sends |-> [k \in 1..Len(ns) |-> IF outs[k] = "true" THEN 1 ELSE 2]]

\* NotificationManager.notify_all with the sends ending as outs: whether it
\* raises, what it returns, how many times it calls each channel's send
notify_all(ns, outs) ==
    IF ns = << >>
    THEN [raised |-> FALSE, value |-> 0, sends |-> << >>]
    ELSE [raised |-> FALSE,
          value |-> Cardinality({k \in 1..Len(ns) : outs[k] = "true"}),
          sends |-> [k \in 1..Len(ns) |-> 1]]

\* the configuration of the runs of SpecScan: Telegram and Discord set up,
\* Email enabled without a password
RunConfig ==
    [telegram |-> [enabled |-> TRUE, token |-> "v", chat_id |-> "v"],
     email |-> [enabled |-> TRUE, smtp_server |-> "v", smtp_port |-> <<587>>,
                sender_email |-> "v", sender_password |-> "", recipient |-> "v"],
     discord |-> [enabled |-> TRUE, webhook_url |-> "v"]]

(***************************************************************************)
(* State.                                                                  *)
(***************************************************************************)
VARIABLES
    now,        \* the clock (datetime.now())
    nextId,     \* number of session ids handed out so far
    sq,         \* the SQLite database, as committed
    js,         \* the JSON file
    sqCur,      \* Spec: the caller's session object on the SQLite side, << >> if none
    jsCur,      \* Spec: the caller's session object on the JSON side
    last,       \* Spec: the operation just performed and what it returned
    backend,    \* SpecConc, SpecScan: the backend create_storage built
    sqLock,     \* SpecConc: the caller holding SQLite's write lock, 0 if free
    cpc,        \* SpecConc: where each caller is in save_scan_session
    csess,      \* SpecConc: each caller's session object
    cidx,       \* SpecConc: each caller's position in session.results
    work,       \* SpecConc: each caller's open transaction / loaded document
    cret,       \* SpecConc: what each caller's call returned
    cpre,       \* SpecConc: what a reader saw when each caller's call began
    raced,      \* SpecConc: another writer had the file open during the caller's write
    rpc,        \* SpecScan: where the run is in run_scan / scan_async
    session,    \* SpecScan: the run's session object, << >> before the first run
    bulk,       \* SpecScan: how _run_masscan ended in this run
    parsed,     \* SpecScan: the list _run_masscan returned in this run
    tasks,      \* SpecScan: the probe tasks handed to asyncio.gather
    probeErr,   \* SpecScan: the worst way a probe of this run ended
    endStamps,  \* SpecScan: number of assignments to session.end_time
    notified,   \* SpecScan: number of notify_all calls of this run
    runRet,     \* SpecScan: what the last run_scan returned
    saved,      \* SpecScan: what the save_scan_session calls of this run returned
    runPre,     \* SpecScan: the (ip, port) pairs stored when this run began
    proc,       \* SpecScan: the masscan process of this run: "none", "running", "exited"
    outFile,    \* SpecScan: does this run's masscan output file exist
    config,     \* SpecNotify, SpecScan: the notifications section of config.yaml
    npc,        \* SpecNotify: where the application is: "start", "rejected", "loaded", "built", "returned"
    notifiers,  \* NotificationManager.notifiers
    outcomes,   \* how each registered channel's send ended in the last notify_all
    sends,      \* number of send calls on each registered channel in the last notify_all
    notifyRet,  \* what the last notify_all did: [raised, value]
    outputLines,\* SpecParse: the lines of the masscan output file, as bytes on disk
    ppc,        \* SpecParse: "file" before _parse_masscan_output ran, "parsed" after
    presults,   \* SpecParse: the list _parse_masscan_output returned
    perm,       \* SpecOrder: a result list and a permutation of it
    permOut,    \* SpecOrder: the stores after saving each of the two
    text,       \* SpecAnalyze: the banner handed to analyze
    verdict,    \* SpecAnalyze: << >>, or <<what analyze returned>>
    response,   \* SpecProbe: the bytes the probed service sends
    probeIn,    \* SpecProbe: the result handed to _get_banner_for_port
    probeOut    \* SpecProbe: << >>, or <<[how the probe went, what it returned]>>

storeVars == <<now, nextId, sq, js>>

lockstepVars == <<sqCur, jsCur, last>>

concVars == <<sqLock, cpc, csess, cidx, work, cret, cpre, raced>>

scanVars == <<rpc, session, bulk, parsed, tasks, probeErr, endStamps, notified, runRet,
              saved, runPre, proc, outFile>>

notifyVars == <<config, npc, notifiers, outcomes, sends, notifyRet>>

parseVars == <<outputLines, ppc, presults>>

orderVars == <<perm, permOut>>

probeVars == <<text, verdict, response, probeIn, probeOut>>

\* what the actions of Spec leave alone
notLockstep == <<backend, concVars, scanVars, notifyVars, parseVars, orderVars, probeVars>>

\* what the actions of SpecConc leave alone
notConc == <<backend, lockstepVars, scanVars, notifyVars, parseVars, orderVars, probeVars>>

\* what the actions of SpecScan leave alone
notScan == <<backend, now, lockstepVars, concVars, config, npc, notifiers,
             parseVars, orderVars, probeVars>>

\* what the actions of SpecNotify leave alone
notNotify == <<backend, storeVars, lockstepVars, concVars, scanVars, parseVars, orderVars, probeVars>>

\* the threads or processes calling save_scan_session at the same time
Procs == {1, 2}

\* the result objects a caller can hand to save_scan_session: every pair as
\* the parser leaves it (service guessed from the port, no banner)
ResultPool(t) ==
    {ScanResult(p[1], p[2], get_service_name(p[2]), None, t) : p \in Pairs}

\* the result lists of at most MaxResults entries
ResultLists(t) ==
    UNION {[1..n -> ResultPool(t)] : n \in 0..MaxResults}

\* the sessions a caller can hand to save_scan_session for the first time
NewSessions(id, t) ==
    {ScanSession(id, "completed", t, rs, << >>) : rs \in ResultLists(t)}
        \cup {ScanSession(id, "failed", t, << >>, <<"Masscan failed: error">>)}

InitStore ==
    /\ now = 0
    /\ nextId = 0
    /\ sq = EmptyData
    /\ js = [ok |-> TRUE, data |-> EmptyData]

InitLockstep ==
    /\ sqCur = << >>
    /\ jsCur = << >>
    /\ last = [op |-> "init"]

InitConc ==
    /\ sqLock = 0
    /\ cpc = [p \in Procs |-> "idle"]
    /\ csess = [p \in Procs |-> << >>]
    /\ cidx = [p \in Procs |-> 0]
    /\ work = [p \in Procs |-> EmptyData]
    /\ cret = [p \in Procs |-> FALSE]
    /\ cpre = [p \in Procs |-> EmptyData]
    /\ raced = [p \in Procs |-> FALSE]

InitScan ==
    /\ rpc = "idle"
    /\ session = << >>
    /\ bulk = "none"
    /\ parsed = << >>
    /\ tasks = << >>
    /\ probeErr = "none"
    /\ endStamps = 0
    /\ notified = 0
    /\ runRet = TRUE
    /\ saved = << >>
    /\ runPre = {}
    /\ proc = "none"
    /\ outFile = FALSE

\* no output file read
InitParse ==
    /\ outputLines = << >>
    /\ ppc = "file"
    /\ presults = << >>

\* no permutation tried
InitOrder ==
    /\ perm = << >>
    /\ permOut = << >>

\* no banner analysed, no port probed
InitProbe ==
    /\ text = ""
    /\ verdict = << >>
    /\ response = << >>
    /\ probeIn = << >>
    /\ probeOut = << >>

\* no configuration loaded yet
InitNotify ==
    /\ npc = "start"
    /\ notifiers = << >>
    /\ outcomes = << >>
    /\ sends = << >>
    /\ notifyRet = [raised |-> FALSE, value |-> 0]

(***************************************************************************)
(* Spec: the same operations applied to both backends.                     *)
(***************************************************************************)
\* save_scan_session(session) with a session object not saved before
SaveNew ==
    /\ nextId < Len(SessionIds)
    /\ \E s \in NewSessions(SessionIds[nextId + 1], now) :
          LET a == Sq_save_scan_session(sq, s)
              b == Js_save_scan_session(js, s)
          IN  /\ sq' = a.db
              /\ js' = b.file
              /\ sqCur' = <<a.session>>
              /\ jsCur' = <<b.session>>
              /\ last' = [op |-> "save", sqRet |-> a.ret, jsRet |-> b.ret]
    /\ nextId' = nextId + 1
    /\ now' = now
    /\ UNCHANGED notLockstep

\* a recomputation that takes total_results from the list of new results
Recount_total_from_new(s) ==
    [s EXCEPT !.new_results = CountNew(s.results), !.total_results = CountNew(s.results)]

\* main.py run_scan, the count recomputation between its two saves
Recount(s) ==
    [s EXCEPT !.new_results = CountNew(s.results), !.total_results = Len(s.results)]

\* save_scan_session(session) with the session object saved last, its counts
\* recomputed by the caller as run_scan does before its second save
SaveAgain ==
    /\ sqCur # << >>
    /\ LET a == Sq_save_scan_session(sq, Recount(sqCur[1]))
           b == Js_save_scan_session(js, Recount(jsCur[1]))
       IN  /\ sq' = a.db
           /\ js' = b.file
           /\ sqCur' = <<a.session>>
           /\ jsCur' = <<b.session>>
           /\ last' = [op |-> "resave", sqRet |-> a.ret, jsRet |-> b.ret]
    /\ UNCHANGED <<now, nextId>>
    /\ UNCHANGED notLockstep

\* the retention periods tried
Days == {0, 1}

\* delete_old_results(days)
DeleteOld ==
    /\ \E d \in Days :
          LET a == Sq_delete_old_results(sq, now, d)
              b == Js_delete_old_results(js, now, d)
          IN  /\ sq' = a.db
              /\ js' = b.file
              /\ last' = [op |-> "delete", days |-> d, sqRet |-> a.ret, jsRet |-> b.ret]
    /\ UNCHANGED <<now, nextId, sqCur, jsCur>>
    /\ UNCHANGED notLockstep

\* time passes
Tick ==
    /\ now < MaxTime
    /\ now' = now + 1
    /\ last' = [op |-> "tick"]
    /\ UNCHANGED <<nextId, sq, js, sqCur, jsCur>>
    /\ UNCHANGED notLockstep

vars == <<now, nextId, sq, js, sqCur, jsCur, last, backend,
          sqLock, cpc, csess, cidx, work, cret, cpre, raced,
          rpc, session, bulk, parsed, tasks, probeErr, endStamps, notified, runRet,
          saved, runPre, proc, outFile,
          config, npc, notifiers, outcomes, sends, notifyRet,
          outputLines, ppc, presults, perm, permOut,
          text, verdict, response, probeIn, probeOut>>

Init ==
    /\ InitStore /\ InitLockstep /\ InitConc /\ InitScan /\ InitNotify
    /\ InitParse /\ InitOrder /\ InitProbe
    /\ config = RunConfig
    /\ backend = "both"

Next == SaveNew \/ SaveAgain \/ DeleteOld \/ Tick

Spec == Init /\ [][Next]_vars

(***************************************************************************)
(* SpecConc: save_scan_session calls running at the same time on one       *)
(* store (main.py run_scan started by dashboard.py api_scan in a thread    *)
(* per request, or by several processes).  Each call runs statement by     *)
(* statement; a statement can raise, and the caller can die at any point.  *)
(***************************************************************************)
\* what a reader (a fresh connection, a fresh _load_data) sees
View == IF backend = "sqlite" THEN sq ELSE Js_load_data(js)

\* a file that does not hold a complete document
Broken == [ok |-> FALSE, data |-> EmptyData]

\* a caller enters save_scan_session with a completed session not saved before
Call(p) ==
    /\ cpc[p] \in {"idle", "returned"}
    /\ nextId < Len(SessionIds)
    /\ \E rs \in ResultLists(now) :
          csess' = [csess EXCEPT ![p] =
                      <<ScanSession(SessionIds[nextId + 1], "completed", now, rs, << >>)>>]
    /\ nextId' = nextId + 1
    /\ cpc' = [cpc EXCEPT ![p] = "begin"]
    /\ cidx' = [cidx EXCEPT ![p] = 1]
    /\ cpre' = [cpre EXCEPT ![p] = View]
    /\ raced' = [raced EXCEPT ![p] = FALSE]
    /\ UNCHANGED <<now, sq, js, sqLock, work, cret>>
    /\ UNCHANGED notConc

\* SQLite: INSERT OR REPLACE INTO scan_sessions opens the transaction and
\* takes the write lock
Sq_Begin(p) ==
    /\ backend = "sqlite"
    /\ cpc[p] = "begin"
    /\ sqLock = 0
    /\ sqLock' = p
    /\ work' = [work EXCEPT ![p] = Sq_UpsertSession(sq, csess[p][1])]
    /\ cpc' = [cpc EXCEPT ![p] = "insert"]
    /\ UNCHANGED <<now, nextId, sq, js, csess, cidx, cret, cpre, raced>>
    /\ UNCHANGED notConc

\* SQLite: the write lock stays taken for the connection's busy timeout:
\* OperationalError (database is locked), caught by except Exception:
\* rollback, return False
Sq_Busy(p) ==
    /\ backend = "sqlite"
    /\ cpc[p] = "begin"
    /\ sqLock \notin {0, p}
    /\ cpc' = [cpc EXCEPT ![p] = "returned"]
    /\ cret' = [cret EXCEPT ![p] = FALSE]
    /\ UNCHANGED <<now, nextId, sq, js, sqLock, csess, cidx, work, cpre, raced>>
    /\ UNCHANGED notConc

\* SQLite: one INSERT INTO scan_results of the loop
Sq_Insert(p) ==
    /\ backend = "sqlite"
    /\ cpc[p] = "insert"
    /\ cidx[p] <= Len(csess[p][1].results)
    /\ LET one == Sq_InsertResult(work[p], csess[p][1].results[cidx[p]], csess[p][1].id)
       IN  /\ work' = [work EXCEPT ![p] = one.db]
           /\ csess' = [csess EXCEPT ![p] = <<[@[1] EXCEPT !.results[cidx[p]] = one.r]>>]
    /\ cidx' = [cidx EXCEPT ![p] = @ + 1]
    /\ UNCHANGED <<now, nextId, sq, js, sqLock, cpc, cret, cpre, raced>>
    /\ UNCHANGED notConc

\* SQLite: conn.commit(); return True
Sq_Commit(p) ==
    /\ backend = "sqlite"
    /\ cpc[p] = "insert"
    /\ cidx[p] > Len(csess[p][1].results)
    /\ sq' = work[p]
    /\ sqLock' = 0
    /\ work' = [work EXCEPT ![p] = EmptyData]
    /\ cpc' = [cpc EXCEPT ![p] = "returned"]
    /\ cret' = [cret EXCEPT ![p] = TRUE]
    /\ UNCHANGED <<now, nextId, js, csess, cidx, cpre, raced>>
    /\ UNCHANGED notConc

\* SQLite: a statement or the commit raises (disk I/O error, disk full):
\* except Exception: conn.rollback(); return False
Sq_Error(p) ==
    /\ backend = "sqlite"
    /\ cpc[p] = "insert"
    /\ sqLock' = 0
    /\ work' = [work EXCEPT ![p] = EmptyData]
    /\ cpc' = [cpc EXCEPT ![p] = "returned"]
    /\ cret' = [cret EXCEPT ![p] = FALSE]
    /\ UNCHANGED <<now, nextId, sq, js, csess, cidx, cpre, raced>>
    /\ UNCHANGED notConc

\* JSON: data = self._load_data(), then the document is built in memory
Js_Load(p) ==
    /\ backend = "json"
    /\ cpc[p] = "begin"
    /\ work' = [work EXCEPT ![p] = Js_BuildData(Js_load_data(js), csess[p][1]).data]
    /\ cpc' = [cpc EXCEPT ![p] = "open"]
    /\ UNCHANGED <<now, nextId, sq, js, sqLock, csess, cidx, cret, cpre, raced>>
    /\ UNCHANGED notConc

\* JSON: _save_data, open(self.file_path, 'w') truncates the file
Js_Open(p) ==
    /\ backend = "json"
    /\ cpc[p] = "open"
    /\ js' = Broken
    /\ cpc' = [cpc EXCEPT ![p] = "dump"]
    /\ raced' = [q \in Procs |-> IF q # p /\ cpc[q] = "dump" THEN TRUE ELSE raced[q]]
    /\ UNCHANGED <<now, nextId, sq, sqLock, csess, cidx, work, cret, cpre>>
    /\ UNCHANGED notConc

\* JSON: _save_data, open raises (permissions): return False
Js_OpenFails(p) ==
    /\ backend = "json"
    /\ cpc[p] = "open"
    /\ cpc' = [cpc EXCEPT ![p] = "returned"]
    /\ cret' = [cret EXCEPT ![p] = FALSE]
    /\ work' = [work EXCEPT ![p] = EmptyData]
    /\ UNCHANGED <<now, nextId, sq, js, sqLock, csess, cidx, cpre, raced>>
    /\ UNCHANGED notConc

\* JSON: _save_data, json.dump writes the whole document and the file is
\* closed: return True.  When another writer had the file open meanwhile the
\* two documents may overlap in the file
Js_Dump(p) ==
    /\ backend = "json"
    /\ cpc[p] = "dump"
    /\ \/ js' = [ok |-> TRUE, data |-> work[p]]
       \/ /\ raced[p] \/ \E q \in Procs \ {p} : cpc[q] = "dump"
          /\ js' = Broken
    /\ raced' = [q \in Procs |-> IF q # p /\ cpc[q] = "dump" THEN TRUE ELSE raced[q]]
    /\ cpc' = [cpc EXCEPT ![p] = "returned"]
    /\ cret' = [cret EXCEPT ![p] = TRUE]
    /\ work' = [work EXCEPT ![p] = EmptyData]
    /\ UNCHANGED <<now, nextId, sq, sqLock, csess, cidx, cpre>>
    /\ UNCHANGED notConc

\* JSON: _save_data, json.dump raises part-way (disk full): the file is left
\* as written so far, return False
Js_DumpFails(p) ==
    /\ backend = "json"
    /\ cpc[p] = "dump"
    /\ js' = Broken
    /\ cpc' = [cpc EXCEPT ![p] = "returned"]
    /\ cret' = [cret EXCEPT ![p] = FALSE]
    /\ work' = [work EXCEPT ![p] = EmptyData]
    /\ UNCHANGED <<now, nextId, sq, sqLock, csess, cidx, cpre, raced>>
    /\ UNCHANGED notConc

\* the caller's process dies inside the call: SQLite's journal undoes an
\* open transaction and the lock goes; a file opened for writing stays as
\* written so far
Crash(p) ==
    /\ cpc[p] \in {"begin", "insert", "open", "dump"}
    /\ cpc' = [cpc EXCEPT ![p] = "crashed"]
    /\ sqLock' = IF sqLock = p THEN 0 ELSE sqLock
    /\ work' = [work EXCEPT ![p] = EmptyData]
    /\ UNCHANGED <<now, nextId, sq, js, csess, cidx, cret, cpre, raced>>
    /\ UNCHANGED notConc

InitC ==
    /\ InitStore /\ InitLockstep /\ InitConc /\ InitScan /\ InitNotify
    /\ InitParse /\ InitOrder /\ InitProbe
    /\ config = RunConfig
    /\ backend \in {"sqlite", "json"}

NextConc ==
    \E p \in Procs :
        \/ Call(p)
        \/ Sq_Begin(p) \/ Sq_Busy(p) \/ Sq_Insert(p) \/ Sq_Commit(p) \/ Sq_Error(p)
        \/ Js_Load(p) \/ Js_Open(p) \/ Js_OpenFails(p) \/ Js_Dump(p) \/ Js_DumpFails(p)
        \/ Crash(p)

SpecConc == InitC /\ [][NextConc]_vars

(***************************************************************************)
(* SpecScan: main.py run_scan, one run after another on one store.         *)
(***************************************************************************)
\* the ways _run_masscan raises: a nonzero exit code (RuntimeError), the
\* wait_for timeout (asyncio.TimeoutError), a failure to start the process
BulkErrors == {"nonzero", "timeout", "spawn"}

\* str(e) of the exception scan_async catches: wait_for raises TimeoutError
\* with no argument, whose str is the empty string
StrOfException(e) ==
    CASE e = "nonzero" -> "Masscan failed: error"
      [] e = "timeout" -> ""
      [] OTHER -> "[Errno 13] Permission denied: 'masscan'"

\* the ways one probe can go: a response is read; the connection is refused;
\* the connect or the read times out; any other exception
ProbeOutcomes == {"banner", "refused", "connect_timeout", "read_timeout", "other"}

\* strings: s[i], s[n:], s[:n]
Char(s, i) == SubSeq(s, i, i)

Drop(s, n) == IF n >= Len(s) THEN "" ELSE SubSeq(s, n + 1, Len(s))

Take(s, n) == IF Len(s) <= n THEN s ELSE SubSeq(s, 1, n)

In(c, class) == \E k \in 1..Len(class) : Char(class, k) = c

UpperCase == "ABCDEFGHIJKLMNOPQRSTUVWXYZ"

LowerCase == "abcdefghijklmnopqrstuvwxyz"

LowerChar(c) ==
    IF In(c, UpperCase)
    THEN Char(LowerCase, CHOOSE k \in 1..Len(UpperCase) : Char(UpperCase, k) = c)
    ELSE c

\* the string in lower case: matching under re.IGNORECASE compares these
RECURSIVE Lower(_)
Lower(s) ==
    IF Len(s) <= 1 THEN LowerChar(s)
    ELSE Lower(Take(s, Len(s) \div 2)) \o Lower(Drop(s, Len(s) \div 2))

WhiteSpace == " \t\n\r"

\* str.strip()
RECURSIVE Strip(_)
Strip(s) ==
    IF s = "" THEN ""
    ELSE IF In(Char(s, 1), WhiteSpace) THEN Strip(Drop(s, 1))
    ELSE IF In(Char(s, Len(s)), WhiteSpace) THEN Strip(Take(s, Len(s) - 1))
    ELSE s

\* s.split('\n')[0]
FirstLine(s) ==
    LET breaks == {i \in 1..Len(s) : Char(s, i) = "\n"}
    IN  IF breaks = {} THEN s
        ELSE Take(s, (CHOOSE i \in breaks : \A j \in breaks : i <= j) - 1)

\* the length of the longest run of characters of the class starting at s[i]
\* (letter case apart)
RECURSIVE RunLen(_, _, _)
RunLen(s, i, class) ==
    IF i > Len(s) \/ ~In(LowerChar(Char(s, i)), class) THEN 0
    ELSE 1 + RunLen(s, i + 1, class)

Digits == "0123456789"

\* banner_analyzer.py PATTERNS, in the order of declaration, restricted to
\* six of its entries.  "triple" is word(?:/(\d+\.\d+\.\d+))?, "run" is
\* word[_\-]?([class]+)?, "plain" is the word alone
PATTERNS ==
    <<[word |-> "Apache", kind |-> "triple", class |-> "", name |-> "Apache"],
      [word |-> "nginx", kind |-> "triple", class |-> "", name |-> "Nginx"],
      [word |-> "OpenSSH", kind |-> "run", class |-> "0123456789.p", name |-> "OpenSSH"],
      [word |-> "OpenSSL", kind |-> "plain", class |-> "", name |-> "OpenSSL"],
      [word |-> "Tomcat", kind |-> "run", class |-> "0123456789.", name |-> "Tomcat"],
      [word |-> "nginx", kind |-> "plain", class |-> "", name |-> "Nginx"]>>

\* the leftmost position at which the word occurs in s, letter case apart;
\* 0 if it does not occur
Find(s, word) ==
    LET ls == Lower(s)
        lw == Lower(word)
        at == {i \in 1..(Len(s) - Len(word) + 1) : SubSeq(ls, i, i + Len(word) - 1) = lw}
    IN  IF at = {} THEN 0 ELSE CHOOSE i \in at : \A j \in at : i <= j

\* group 1 of /(\d+\.\d+\.\d+) tried at s[i], None if it does not match there
Triple(s, i) ==
    LET d1 == RunLen(s, i + 1, Digits)
        d2 == RunLen(s, i + 2 + d1, Digits)
        d3 == RunLen(s, i + 3 + d1 + d2, Digits)
    IN  IF /\ i <= Len(s) /\ Char(s, i) = "/"
           /\ d1 > 0 /\ i + 1 + d1 <= Len(s) /\ Char(s, i + 1 + d1) = "."
           /\ d2 > 0 /\ i + 2 + d1 + d2 <= Len(s) /\ Char(s, i + 2 + d1 + d2) = "."
           /\ d3 > 0
        THEN SubSeq(s, i + 1, i + 2 + d1 + d2 + d3)
        ELSE None

\* group 1 of [_\-]?([class]+)? tried at s[i], None if the group is empty
Run(s, i, class) ==
    LET j == IF i <= Len(s) /\ In(Char(s, i), "_-") THEN i + 1 ELSE i
        n == RunLen(s, j, class)
    IN  IF n > 0 THEN SubSeq(s, j, j + n - 1) ELSE None

\* re.search(pattern, s, re.IGNORECASE): << >> when there is no match, else
\* <<version>> with match.group(1) if the pattern has a group, else None
Search(p, s) ==
    LET i == Find(s, p.word)
    IN  IF i = 0 THEN << >>
        ELSE IF p.kind = "triple" THEN <<Triple(s, i + Len(p.word))>>
        ELSE IF p.kind = "run" THEN <<Run(s, i + Len(p.word), p.class)>>
        ELSE <<None>>

\* what analyze returns for a matching pattern
ServiceOf(p, s) ==
    IF Search(p, s)[1] # None THEN p.name \o " " \o Search(p, s)[1] ELSE p.name

\* the end of analyze when no pattern matched: the first line, cut at 50
NoPatternFound(s) ==
    IF Take(FirstLine(s), 50) # "" THEN Take(FirstLine(s), 50) ELSE "Unknown"

\* the loop of analyze over PATTERNS.items(), from entry k on
RECURSIVE AnalyzeFrom(_, _)
AnalyzeFrom(s, k) ==
    IF k > Len(PATTERNS) THEN NoPatternFound(s)
    ELSE IF Search(PATTERNS[k], s) # << >> THEN ServiceOf(PATTERNS[k], s)
    ELSE AnalyzeFrom(s, k + 1)

\* an analyzer in which a later entry of the table overrides an earlier one
analyze_last_match(banner) ==
    LET s == Strip(banner)
        found == {k \in 1..Len(PATTERNS) : Search(PATTERNS[k], s) # << >>}
    IN  IF banner \in {None, ""} THEN "Unknown"
        ELSE IF found = {} THEN NoPatternFound(s)
        ELSE ServiceOf(PATTERNS[CHOOSE k \in found : \A j \in found : j <= k], s)

\* BannerAnalyzer.analyze
analyze(banner) ==
    IF banner \in {None, ""} THEN "Unknown"
    ELSE AnalyzeFrom(Strip(banner), 1)

\* the bytes reader.read(1024) returned, as a sequence of pieces: a piece is
\* UTF-8 text or bytes that are not UTF-8
Text(t) == [valid |-> TRUE, text |-> t]

Invalid == [valid |-> FALSE, text |-> ""]

\* the response a probed service sends in the runs of SpecScan
Response == <<Text("SSH-2.0-OpenSSH_8.9")>>

\* bytes.decode('utf-8', errors='ignore'): what is not UTF-8 is left out
RECURSIVE Decode(_)
Decode(resp) ==
    IF resp = << >> THEN ""
    ELSE (IF Head(resp).valid THEN Head(resp).text ELSE "") \o Decode(Tail(resp))

\* the banner length bound: [:200]
BannerLimit == 200

\* banner.decode('utf-8', errors='ignore')[:200] of the response
DecodeBanner(resp) == Take(Decode(resp), BannerLimit)

\* how a probe ended, for the record: "ok", "quiet" (a timeout or a refusal,
\* passed over) or "other" (logged)
Ended(o) ==
    IF o = "banner" THEN "ok"
    ELSE IF o \in {"refused", "connect_timeout", "read_timeout"} THEN "quiet" ELSE "other"

\* a probe that gives up its result when it cannot read a banner
get_banner_for_port_or_none(r, o) ==
    IF o = "banner"
    THEN [raised |-> FALSE,
          value |-> <<[r EXCEPT !.banner = DecodeBanner(Response),
                                !.service = analyze(DecodeBanner(Response))]>>]
    ELSE [raised |-> FALSE, value |-> << >>]

\* a probe that analyses the banner whether or not one was read
get_banner_for_port_relabelling(r, o) ==
    IF o = "banner"
    THEN [raised |-> FALSE,
          value |-> <<[r EXCEPT !.banner = DecodeBanner(Response),
                                !.service = analyze(DecodeBanner(Response))]>>]
    ELSE [raised |-> FALSE, value |-> <<[r EXCEPT !.service = analyze(r.banner)]>>]

\* a probe that stores the banner it read and leaves the service alone
get_banner_for_port_keeping_service(r, o, resp) ==
    IF o \in {"banner", "close_error"}
    THEN [raised |-> FALSE, value |-> <<[r EXCEPT !.banner = DecodeBanner(resp)]>>]
    ELSE [raised |-> FALSE, value |-> <<r>>]

\* _get_banner_for_port when the service sends resp: banner and service are
\* assigned one after the other once the read has returned ("banner"); an
\* exception of wait_closed() comes after both ("close_error"); every other
\* exception comes before either
get_banner_for_port_reading(r, o, resp) ==
    IF o \in {"banner", "close_error"}
    THEN [raised |-> FALSE,
          value |-> <<[r EXCEPT !.banner = DecodeBanner(resp),
                                !.service = analyze(DecodeBanner(resp))]>>]
    ELSE [raised |-> FALSE, value |-> <<r>>]

\* the banner and the service of a probe that reads Response
ResponseBanner == DecodeBanner(Response)

ResponseService == analyze(ResponseBanner)

\* _get_banner_for_port: what the task returns (<<result>>, or << >> for
\* None) and whether it raises; every exception is caught and the result
\* object is returned
get_banner_for_port(r, o) ==
    IF o = "banner"
    THEN [raised |-> FALSE,
          value |-> <<[r EXCEPT !.banner = ResponseBanner, !.service = ResponseService]>>]
    ELSE [raised |-> FALSE, value |-> <<r>>]

\* the items gather hands back that line 251 keeps: not None, not an exception
Kept(ts) == SelectSeq(ts, LAMBDA t : ~t.ret.raised /\ t.ret.value # << >>)

\* probing in which the error of a probe reaches the caller
get_banners_async_unguarded(ts) ==
    [raised |-> \E k \in 1..Len(ts) : ts[k].how # "ok",
     value |-> [k \in 1..Len(Kept(ts)) |-> Kept(ts)[k].ret.value[1]]]

\* _get_banners_async: gather(*tasks, return_exceptions=True) never raises
get_banners_async(ts) ==
    [raised |-> FALSE,
     value |-> [k \in 1..Len(Kept(ts)) |-> Kept(ts)[k].ret.value[1]]]

\* the external process when _run_masscan returns or raises: communicate()
\* has returned after its exit (success, nonzero exit code); wait_for has
\* cancelled communicate() on the timeout and nothing ends the process;
\* create_subprocess_exec raised and there is none
ProcessAfter(e) ==
    CASE e \in {"ok", "nonzero"} -> "exited"
      [] e = "timeout" -> "running"
      [] OTHER -> "none"

\* an except branch that does not record the cause
SessionFailedSilently(s, e, t) ==
    [s EXCEPT !.status = "failed", !.end_time = <<t>>]

\* scan_async, the except branch
SessionFailed(s, e, t) ==
    [s EXCEPT !.status = "failed", !.errors = Append(@, e), !.end_time = <<t>>]

\* scan_async, the end of the try block
SessionCompleted(s, results, t) ==
    [s EXCEPT !.results = results, !.total_results = Len(results),
              !.status = "completed", !.end_time = <<t>>]

\* run_scan calls scan_async, which creates the session
StartScan ==
    /\ rpc = "idle"
    /\ nextId < Len(SessionIds)
    /\ nextId' = nextId + 1
    /\ session' = <<[id |-> SessionIds[nextId + 1], status |-> "running",
                     start_time |-> now, end_time |-> NoTime, targets |-> Targets,
                     results |-> << >>, total_results |-> 0, new_results |-> 0,
                     errors |-> << >>]>>
    /\ rpc' = "masscan"
    /\ bulk' = "none"
    /\ parsed' = << >>
    /\ tasks' = << >>
    /\ probeErr' = "none"
    /\ endStamps' = 0
    /\ notified' = 0
    /\ UNCHANGED <<sq, js, runRet>>
    /\ saved' = << >>
    /\ runPre' = {<<View.results[k].ip, View.results[k].port>> : k \in 1..Len(View.results)}
    /\ proc' = "none"
    /\ outFile' = FALSE
    /\ outcomes' = << >>
    /\ sends' = [k \in 1..Len(notifiers) |-> 0]
    /\ notifyRet' = [raised |-> FALSE, value |-> 0]
    /\ UNCHANGED notScan

\* _run_masscan: create_subprocess_exec has started the masscan process
Spawn ==
    /\ rpc = "masscan"
    /\ proc = "none"
    /\ proc' = "running"
    /\ UNCHANGED <<nextId, sq, js, rpc, session, bulk, parsed, tasks, probeErr, endStamps,
                   notified, runRet>>
    /\ UNCHANGED <<saved, runPre, outFile, outcomes, sends, notifyRet>>
    /\ UNCHANGED notScan

\* the running masscan process creates its output file (-oJ)
ProcWrites ==
    /\ proc = "running"
    /\ ~outFile
    /\ outFile' = TRUE
    /\ UNCHANGED <<nextId, sq, js, rpc, session, bulk, parsed, tasks, probeErr, endStamps,
                   notified, runRet>>
    /\ UNCHANGED <<saved, runPre, proc, outcomes, sends, notifyRet>>
    /\ UNCHANGED notScan

\* a masscan process left running by _run_masscan ends by itself
ProcExits ==
    /\ proc = "running"
    /\ rpc # "masscan"
    /\ proc' = "exited"
    /\ UNCHANGED <<nextId, sq, js, rpc, session, bulk, parsed, tasks, probeErr, endStamps,
                   notified, runRet>>
    /\ UNCHANGED <<saved, runPre, outFile, outcomes, sends, notifyRet>>
    /\ UNCHANGED notScan

\* _run_masscan raises (the finally block unlinks the output file):
\* scan_async's except branch runs, no probe is started
MasscanFails ==
    /\ rpc = "masscan"
    /\ \E e \in BulkErrors :
          /\ (e = "spawn") <=> (proc = "none")
          /\ bulk' = e
          /\ session' = <<SessionFailed(session[1], StrOfException(e), now)>>
          /\ proc' = ProcessAfter(e)
          /\ outFile' = FALSE
    /\ endStamps' = endStamps + 1
    /\ rpc' = "scanned"
    /\ UNCHANGED <<nextId, sq, js, parsed, tasks, probeErr, notified, runRet>>
    /\ UNCHANGED <<saved, runPre, outcomes, sends, notifyRet>>
    /\ UNCHANGED notScan

\* _run_masscan returns the parsed list (empty when the process left no
\* output file) and unlinks the file; with an empty list scan_async
\* completes at once, otherwise one probe task per result is started
MasscanOk ==
    /\ rpc = "masscan"
    /\ proc = "running"
    /\ bulk' = "ok"
    /\ \E rs \in (IF outFile THEN ResultLists(now) ELSE {<< >>}) :
          /\ parsed' = rs
          /\ IF rs = << >>
             THEN /\ session' = <<SessionCompleted(session[1], rs, now)>>
                  /\ endStamps' = endStamps + 1
                  /\ tasks' = << >>
                  /\ rpc' = "scanned"
             ELSE /\ session' = <<[session[1] EXCEPT !.results = rs]>>
                  /\ endStamps' = endStamps
                  /\ tasks' = [k \in 1..Len(rs) |->
                                 [done |-> FALSE, how |-> "ok",
                                  ret |-> [raised |-> FALSE, value |-> <<rs[k]>>]]]
                  /\ rpc' = "probing"
    /\ UNCHANGED <<nextId, sq, js, probeErr, notified, runRet>>
    /\ proc' = ProcessAfter("ok")
    /\ outFile' = FALSE
    /\ UNCHANGED <<saved, runPre, outcomes, sends, notifyRet>>
    /\ UNCHANGED notScan

\* the worse of two ways of ending
Worse(a, b) ==
    IF "other" \in {a, b} THEN "other"
    ELSE IF "quiet" \in {a, b} THEN "quiet"
    ELSE IF "ok" \in {a, b} THEN "ok" ELSE "none"

\* one probe task runs to its end
ProbeDone(k) ==
    /\ rpc = "probing"
    /\ k \in 1..Len(tasks)
    /\ ~tasks[k].done
    /\ \E o \in ProbeOutcomes :
          /\ tasks' = [tasks EXCEPT ![k] =
                         [done |-> TRUE, how |-> Ended(o),
                          ret |-> get_banner_for_port(session[1].results[k], o)]]
          /\ probeErr' = Worse(probeErr, Ended(o))
    /\ UNCHANGED <<nextId, sq, js, rpc, session, bulk, parsed, endStamps, notified, runRet>>
    /\ UNCHANGED <<saved, runPre, proc, outFile, outcomes, sends, notifyRet>>
    /\ UNCHANGED notScan

\* a wait that returns with the first task to end
gather_first_completed(ts) == \E k \in 1..Len(ts) : ts[k].done

\* await asyncio.gather(*tasks, ...) returns when every task has ended
gather(ts) == \A k \in 1..Len(ts) : ts[k].done

\* gather returns: _get_banners_async filters its list and scan_async ends
ScanFinish ==
    /\ rpc = "probing"
    /\ gather(tasks)
    /\ LET got == get_banners_async(tasks)
       IN  session' = IF got.raised
                      THEN <<SessionFailed(session[1], "probe error", now)>>
                      ELSE <<SessionCompleted(session[1], got.value, now)>>
    /\ endStamps' = endStamps + 1
    /\ tasks' = << >>
    /\ rpc' = "scanned"
    /\ UNCHANGED <<nextId, sq, js, bulk, parsed, probeErr, notified, runRet>>
    /\ UNCHANGED <<saved, runPre, proc, outFile, outcomes, sends, notifyRet>>
    /\ UNCHANGED notScan

\* storage.get_scan_session(id) on the backend in use
get_scan_session(id) ==
    IF backend = "sqlite" THEN Sq_get_scan_session(sq, id) ELSE Js_get_scan_session(js, id)

\* run_scan: the session came back failed, return False
RunFailed ==
    /\ rpc = "scanned"
    /\ session[1].status = "failed"
    /\ runRet' = FALSE
    /\ rpc' = "idle"
    /\ UNCHANGED <<nextId, sq, js, session, bulk, parsed, tasks, probeErr, endStamps, notified>>
    /\ UNCHANGED <<saved, runPre, proc, outFile, outcomes, sends, notifyRet>>
    /\ UNCHANGED notScan

\* self.storage.save_scan_session(session) on the backend in use
StorageSave(to) ==
    /\ IF backend = "sqlite"
       THEN LET a == Sq_save_scan_session(sq, session[1])
            IN  sq' = a.db /\ session' = <<a.session>> /\ js' = js
       ELSE LET b == Js_save_scan_session(js, session[1])
            IN  js' = b.file /\ session' = <<b.session>> /\ sq' = sq
    /\ rpc' = to
    /\ UNCHANGED <<nextId, bulk, parsed, tasks, probeErr, endStamps, notified, runRet>>
    /\ saved' = Append(saved, TRUE)
    /\ UNCHANGED <<runPre, proc, outFile, outcomes, sends, notifyRet>>
    /\ UNCHANGED notScan

\* self.storage.save_scan_session(session) returns False
StorageSaveFails(to) ==
    /\ IF backend = "sqlite"
       THEN \E i \in 0..Len(session[1].results) :
               LET a == Sq_save_scan_session_failing(sq, session[1], i)
               IN  sq' = a.db /\ session' = <<a.session>> /\ js' = js
       ELSE \E truncated \in BOOLEAN :
               LET b == Js_save_scan_session_failing(js, session[1], truncated)
               IN  js' = b.file /\ session' = <<b.session>> /\ sq' = sq
    /\ saved' = Append(saved, FALSE)
    /\ rpc' = to
    /\ UNCHANGED <<nextId, bulk, parsed, tasks, probeErr, endStamps, notified, runRet>>
    /\ UNCHANGED <<runPre, proc, outFile, outcomes, sends, notifyRet>>
    /\ UNCHANGED notScan

\* run_scan: the first save returns False
Save1Fails ==
    /\ rpc = "scanned"
    /\ session[1].status # "failed"
    /\ StorageSaveFails("saved1")

\* run_scan: the second save returns False
Save2Fails ==
    /\ rpc = "counted"
    /\ StorageSaveFails("saved2")

\* run_scan: SQLiteStorage.save_scan_session raises, sqlite3.connect failing
\* before the try block; run_scan's except branch returns False
SaveRaises ==
    /\ backend = "sqlite"
    /\ \/ rpc = "scanned" /\ session[1].status # "failed"
       \/ rpc = "counted"
    /\ runRet' = FALSE
    /\ rpc' = "idle"
    /\ UNCHANGED <<nextId, sq, js, session, bulk, parsed, tasks, probeErr, endStamps, notified>>
    /\ UNCHANGED <<saved, runPre, proc, outFile, outcomes, sends, notifyRet>>
    /\ UNCHANGED notScan

\* run_scan: the first save
Save1 ==
    /\ rpc = "scanned"
    /\ session[1].status # "failed"
    /\ StorageSave("saved1")

\* run_scan: new_results and total_results are recomputed
Count ==
    /\ rpc = "saved1"
    /\ session' = <<Recount(session[1])>>
    /\ rpc' = "counted"
    /\ UNCHANGED <<nextId, sq, js, bulk, parsed, tasks, probeErr, endStamps, notified, runRet>>
    /\ UNCHANGED <<saved, runPre, proc, outFile, outcomes, sends, notifyRet>>
    /\ UNCHANGED notScan

\* run_scan: the second save
Save2 ==
    /\ rpc = "counted"
    /\ StorageSave("saved2")

\* run_scan: the list of new results is not empty, notify_all is awaited
Notify ==
    /\ rpc = "saved2"
    /\ session[1].new_results > 0
    /\ notified' = notified + 1
    /\ \E outs \in [1..Len(notifiers) -> SendOutcomes] :
          LET r == notify_all(notifiers, outs)
          IN  /\ sends' = r.sends
              /\ notifyRet' = [raised |-> r.raised, value |-> r.value]
    /\ rpc' = "notified"
    /\ UNCHANGED <<nextId, sq, js, session, bulk, parsed, tasks, probeErr, endStamps, runRet>>
    /\ UNCHANGED <<saved, runPre, proc, outFile, outcomes>>
    /\ UNCHANGED notScan

\* run_scan: the discoveries are logged, return True
Return ==
    /\ \/ rpc = "notified"
       \/ rpc = "saved2" /\ session[1].new_results = 0
    /\ runRet' = TRUE
    /\ rpc' = "idle"
    /\ UNCHANGED <<nextId, sq, js, session, bulk, parsed, tasks, probeErr, endStamps, notified>>
    /\ UNCHANGED <<saved, runPre, proc, outFile, outcomes, sends, notifyRet>>
    /\ UNCHANGED notScan

\* PortScannerApplication.__init__ has loaded RunConfig and built the store
\* and the notification manager
InitS ==
    /\ InitStore /\ InitLockstep /\ InitConc /\ InitScan
    /\ InitParse /\ InitOrder /\ InitProbe
    /\ config = RunConfig
    /\ npc = "built"
    /\ notifiers = create_notification_manager(config)
    /\ outcomes = << >>
    /\ sends = << >>
    /\ notifyRet = [raised |-> FALSE, value |-> 0]
    /\ backend \in {"sqlite", "json"}

NextScan ==
    \/ StartScan \/ Spawn \/ ProcWrites \/ ProcExits \/ MasscanFails \/ MasscanOk
    \/ \E k \in 1..MaxResults : ProbeDone(k)
    \/ ScanFinish \/ RunFailed \/ Save1 \/ Count \/ Save2 \/ Notify \/ Return

\* runs on a store that works
SpecScan == InitS /\ [][NextScan]_vars

\* runs in which a save_scan_session call can also return False or raise
NextScanFaults ==
    \/ StartScan \/ Spawn \/ ProcWrites \/ ProcExits \/ MasscanFails \/ MasscanOk
    \/ \E k \in 1..MaxResults : ProbeDone(k)
    \/ ScanFinish \/ RunFailed \/ Save1 \/ Count \/ Save2 \/ Notify \/ Return
    \/ Save1Fails \/ Save2Fails \/ SaveRaises

SpecScanFaults == InitS /\ [][NextScanFaults]_vars

(***************************************************************************)
(* SpecLive: run_scan with each await taken apart into its start and its   *)
(* end, to see which waits must end.  A wait bounded by a timeout ends     *)
(* whatever the other side does; a wait without one ends only when the     *)
(* other side acts.                                                        *)
(***************************************************************************)
\* a config.yaml with Telegram and e-mail both enabled and fully filled in
LiveConfig ==
    [telegram |-> [enabled |-> TRUE, token |-> "v", chat_id |-> "v"],
     email |-> [enabled |-> TRUE, smtp_server |-> "v", smtp_port |-> <<587>>,
                sender_email |-> "v", sender_password |-> "v", recipient |-> "v"],
     discord |-> [enabled |-> FALSE, webhook_url |-> None]]

\* is the send of this channel bounded by a timeout: TelegramNotifier and
\* DiscordNotifier post with aiohttp.ClientTimeout(total=10); EmailNotifier
\* runs smtplib.SMTP(server, port) in an executor thread with no timeout
\* argument, on blocking sockets
SendBounded(notifier) == notifier.kind # "email"

\* run_scan: the list of new results is not empty, notify_all starts one
\* send per registered channel and awaits them
NotifyBegin ==
    /\ rpc = "saved2"
    /\ session[1].new_results > 0
    /\ notified' = notified + 1
    /\ outcomes' = [k \in 1..Len(notifiers) |-> "pending"]
    /\ rpc' = "notifying"
    /\ UNCHANGED <<nextId, sq, js, session, bulk, parsed, tasks, probeErr, endStamps, runRet>>
    /\ UNCHANGED <<saved, runPre, proc, outFile, sends, notifyRet>>
    /\ UNCHANGED notScan

\* the send of a channel ends one way or another
SendEnds(k) ==
    /\ rpc = "notifying"
    /\ k \in 1..Len(outcomes)
    /\ outcomes[k] = "pending"
    /\ \E o \in SendOutcomes : outcomes' = [outcomes EXCEPT ![k] = o]
    /\ UNCHANGED <<nextId, sq, js, rpc, session, bulk, parsed, tasks, probeErr, endStamps,
                   notified, runRet>>
    /\ UNCHANGED <<saved, runPre, proc, outFile, sends, notifyRet>>
    /\ UNCHANGED notScan

\* a send bounded by its timeout ends: the answer arrives or the timeout
\* raises, and send returns
BoundedSendEnds ==
    \E k \in 1..Len(notifiers) : SendBounded(notifiers[k]) /\ SendEnds(k)

\* the SMTP server answers, refuses or closes the connection: _send_sync
\* returns and the executor future completes
SmtpPeerActs ==
    \E k \in 1..Len(notifiers) : ~SendBounded(notifiers[k]) /\ SendEnds(k)

\* gather returns in notify_all: the successes are counted
NotifyEnd ==
    /\ rpc = "notifying"
    /\ \A k \in 1..Len(outcomes) : outcomes[k] # "pending"
    /\ LET r == notify_all(notifiers, outcomes)
       IN  /\ sends' = r.sends
           /\ notifyRet' = [raised |-> r.raised, value |-> r.value]
    /\ outcomes' = << >>
    /\ rpc' = "notified"
    /\ UNCHANGED <<nextId, sq, js, session, bulk, parsed, tasks, probeErr, endStamps,
                   notified, runRet>>
    /\ UNCHANGED <<saved, runPre, proc, outFile>>
    /\ UNCHANGED notScan

InitL ==
    /\ InitStore /\ InitLockstep /\ InitConc /\ InitScan
    /\ InitParse /\ InitOrder /\ InitProbe
    /\ config = LiveConfig
    /\ npc = "built"
    /\ notifiers = create_notification_manager(config)
    /\ outcomes = << >>
    /\ sends = << >>
    /\ notifyRet = [raised |-> FALSE, value |-> 0]
    /\ backend = "sqlite"

\* the steps the event loop takes by itself: a statement of the program, or
\* a wait ended by its answer or by its timeout (wait_for on communicate(),
\* on open_connection and on reader.read; the aiohttp total timeout).  The
\* probe's drain() and wait_closed() have no timeout but do not wait on the
\* peer: the 18 bytes written fit the socket's send buffer, and close() on
\* a transport with an empty buffer schedules connection_lost at once.
ProgramStep ==
    \/ StartScan \/ Spawn \/ MasscanFails \/ MasscanOk
    \/ \E k \in 1..MaxResults : ProbeDone(k)
    \/ ScanFinish \/ RunFailed \/ Save1 \/ Count \/ Save2 \/ NotifyBegin
    \/ BoundedSendEnds
    \/ NotifyEnd \/ Return

\* the steps of the world outside: the masscan process, the SMTP server
NextLive ==
    \/ ProgramStep
    \/ ProcWrites \/ ProcExits
    \/ SmtpPeerActs

SpecLive == InitL /\ [][NextLive]_vars /\ WF_vars(ProgramStep)

(***************************************************************************)
(* SpecNotify: the application is started on a config.yaml and its         *)
(* notification manager is used.                                           *)
(***************************************************************************)
\* ConfigManager.load validates the file: AppConfig(**raw_config) raises
\* ValueError when Telegram is enabled without token or chat_id
LoadConfig ==
    /\ npc = "start"
    /\ npc' = IF validate_if_enabled(config.telegram) THEN "loaded" ELSE "rejected"
    /\ UNCHANGED <<config, notifiers, outcomes, sends, notifyRet>>
    /\ UNCHANGED notNotify

\* PortScannerApplication.__init__ builds the manager
BuildManager ==
    /\ npc = "loaded"
    /\ notifiers' = create_notification_manager(config)
    /\ npc' = "built"
    /\ UNCHANGED <<config, outcomes, sends, notifyRet>>
    /\ UNCHANGED notNotify

\* one notify_all call, every send ending one way or another
NotifyAll ==
    /\ npc \in {"built", "returned"}
    /\ \E outs \in [1..Len(notifiers) -> SendOutcomes] :
          LET r == notify_all(notifiers, outs)
          IN  /\ outcomes' = outs
              /\ sends' = r.sends
              /\ notifyRet' = [raised |-> r.raised, value |-> r.value]
    /\ npc' = "returned"
    /\ UNCHANGED <<config, notifiers>>
    /\ UNCHANGED notNotify

InitN ==
    /\ InitStore /\ InitLockstep /\ InitConc /\ InitScan /\ InitNotify
    /\ InitParse /\ InitOrder /\ InitProbe
    /\ config \in NotificationsConfigs
    /\ backend = "sqlite"

NextNotify == LoadConfig \/ BuildManager \/ NotifyAll

SpecNotify == InitN /\ [][NextNotify]_vars

(***************************************************************************)
(* SpecParse: _parse_masscan_output applied to the output file a masscan   *)
(* process left behind.                                                    *)
(***************************************************************************)
\* longest output file, in lines
MaxLines == 3

\* the lines an output file can hold.  "record": a JSON object with one host
\* and one port; "blank": only white space; "not_json": json.loads raises
\* JSONDecodeError; "not_object": JSON that is not an object, data.get raises
\* AttributeError; "bad_second_host": a JSON object whose first host is
\* complete and whose second host has no 'addr', host_data['addr'] raises
\* KeyError; "not_utf8": bytes that are not UTF-8 text
OutputLines ==
    {[kind |-> "record", pairs |-> <<p>>] : p \in Pairs}
        \cup {[kind |-> "bad_second_host", pairs |-> <<p>>] : p \in Pairs}
        \cup {[kind |-> k, pairs |-> << >>] :
                 k \in {"blank", "not_json", "not_object", "not_utf8"}}

\* open(output_file, 'r') and f.read(): the whole file is decoded at once,
\* with the strict error handler, and raises UnicodeDecodeError on a byte
\* sequence that is not UTF-8
ReadRaises(file) == \E k \in 1..Len(file) : file[k].kind = "not_utf8"

\* the ScanResult objects one turn of the loop over the lines appends before
\* it ends or an except branch runs `continue`
ParseLine(line, t) ==
    IF line.kind \in {"record", "bad_second_host"}
    THEN [k \in 1..Len(line.pairs) |->
            ScanResult(line.pairs[k][1], line.pairs[k][2],
                       get_service_name(line.pairs[k][2]), None, t)]
    ELSE << >>

RECURSIVE ParseLines(_, _, _)
ParseLines(file, t, i) ==
    IF i > Len(file) THEN << >>
    ELSE ParseLine(file[i], t) \o ParseLines(file, t, i + 1)

\* _parse_masscan_output on an existing file: the outer except branch logs
\* the error of the read and the empty list is returned
parse_masscan_output(file, t) ==
    IF ReadRaises(file) THEN << >> ELSE ParseLines(file, t, 1)

\* _run_masscan hands the output file to the parser
ParseOutput ==
    /\ ppc = "file"
    /\ presults' = parse_masscan_output(outputLines, now)
    /\ ppc' = "parsed"
    /\ UNCHANGED <<outputLines, perm, permOut, probeVars>>
    /\ UNCHANGED <<backend, storeVars, lockstepVars, concVars, scanVars, notifyVars>>

InitP ==
    /\ InitStore /\ InitLockstep /\ InitConc /\ InitScan /\ InitNotify /\ InitOrder /\ InitProbe
    /\ config = RunConfig
    /\ backend = "sqlite"
    /\ outputLines \in UNION {[1..n -> OutputLines] : n \in 0..MaxLines}
    /\ ppc = "file"
    /\ presults = << >>

NextParse == ParseOutput

SpecParse == InitP /\ [][NextParse]_vars

(***************************************************************************)
(* SpecOrder: save_scan_session applied, on the same store, to a session   *)
(* and to the same session with its result list permuted.                  *)
(***************************************************************************)
\* the result objects scan_async can leave in session.results: as the
\* parser built them, or with the banner and the service a probe assigned
ProbedPool(t) ==
    ResultPool(t) \cup {get_banner_for_port(r, "banner").value[1] : r \in ResultPool(t)}

ProbedLists(t) ==
    UNION {[1..n -> ProbedPool(t)] : n \in 0..MaxResults}

\* the same results in another order
Reorderings(rs) ==
    {[i \in 1..Len(rs) |-> rs[f[i]]] : f \in Orders(Len(rs))}

\* an earlier session is saved: the store holds rows when the comparison starts
SeedStore ==
    /\ nextId = 0
    /\ perm = << >>
    /\ \E s \in NewSessions(SessionIds[1], now) :
          /\ sq' = Sq_save_scan_session(sq, s).db
          /\ js' = Js_save_scan_session(js, s).file
    /\ nextId' = 1
    /\ UNCHANGED <<now, perm, permOut, outputLines, ppc, presults, probeVars>>
    /\ UNCHANGED <<backend, lockstepVars, concVars, scanVars, notifyVars>>

\* save_scan_session(session) on the store as it is, once with the result
\* list in one order and once in another
SavePermuted ==
    /\ perm = << >>
    /\ nextId < Len(SessionIds)
    /\ \E rs \in ProbedLists(now) :
          \E ps \in Reorderings(rs) :
             LET a == ScanSession(SessionIds[nextId + 1], "completed", now, rs, << >>)
                 b == ScanSession(SessionIds[nextId + 1], "completed", now, ps, << >>)
             IN  /\ perm' = <<rs, ps>>
                 /\ permOut' = [sqA |-> Sq_save_scan_session(sq, a).db,
                                sqB |-> Sq_save_scan_session(sq, b).db,
                                jsA |-> Js_save_scan_session(js, a).file,
                                jsB |-> Js_save_scan_session(js, b).file]
    /\ UNCHANGED <<storeVars, outputLines, ppc, presults, probeVars>>
    /\ UNCHANGED <<backend, lockstepVars, concVars, scanVars, notifyVars>>

InitO ==
    /\ InitStore /\ InitLockstep /\ InitConc /\ InitScan /\ InitNotify
    /\ InitParse /\ InitOrder /\ InitProbe
    /\ config = RunConfig
    /\ backend = "both"

NextOrder == SeedStore \/ SavePermuted

SpecOrder == InitO /\ [][NextOrder]_vars

(***************************************************************************)
(* SpecRead: check_is_new_result on both backends, on stores that hold     *)
(* rows and whose read can fail.                                           *)
(***************************************************************************)
\* a save in which the JSON backend's json.dump raises after open() has
\* truncated the file: the file no longer holds a document
SaveBreaksFile ==
    /\ nextId < Len(SessionIds)
    /\ js.ok
    /\ \E s \in NewSessions(SessionIds[nextId + 1], now) :
          LET a == Sq_save_scan_session(sq, s)
              b == Js_save_scan_session_failing(js, s, TRUE)
          IN  /\ sq' = a.db
              /\ js' = b.file
              /\ sqCur' = <<a.session>>
              /\ jsCur' = <<b.session>>
              /\ last' = [op |-> "save", sqRet |-> a.ret, jsRet |-> b.ret]
    /\ nextId' = nextId + 1
    /\ now' = now
    /\ UNCHANGED notLockstep

\* a save in which the JSON backend cannot read its file (open or json.load
\* raises) and then writes it
SaveUnread ==
    /\ nextId < Len(SessionIds)
    /\ js.ok
    /\ \E s \in NewSessions(SessionIds[nextId + 1], now) :
          LET a == Sq_save_scan_session(sq, s)
              b == Js_save_scan_session_unread(js, s)
          IN  /\ sq' = a.db
              /\ js' = b.file
              /\ sqCur' = <<a.session>>
              /\ jsCur' = <<b.session>>
              /\ last' = [op |-> "save", sqRet |-> a.ret, jsRet |-> b.ret]
    /\ nextId' = nextId + 1
    /\ now' = now
    /\ UNCHANGED notLockstep

\* check_is_new_result(result) on both backends; the SQLite query succeeds
\* or raises, the JSON file is read as it is
CheckIsNew ==
    /\ \E r \in ResultPool(now), sqFailed \in BOOLEAN :
          last' = [op |-> "check", ip |-> r.ip, port |-> r.port,
                   sqFailed |-> sqFailed,
                   sqRet |-> IF sqFailed THEN Sq_check_is_new_result_failing(sq, r)
                             ELSE Sq_check_is_new_result(sq, r),
                   jsFailed |-> ~js.ok,
                   jsRet |-> Js_check_is_new_result(js, r)]
    /\ UNCHANGED <<now, nextId, sq, js, sqCur, jsCur>>
    /\ UNCHANGED notLockstep

NextRead == SaveNew \/ SaveBreaksFile \/ SaveUnread \/ CheckIsNew

SpecRead == Init /\ [][NextRead]_vars

(***************************************************************************)
(* SpecPrune: saves that follow a delete_old_results call.                 *)
(***************************************************************************)
\* the (ip, port) pairs that have a row in before and none in after
GonePairs(before, after) ==
    {<<before[k].ip, before[k].port>> : k \in 1..Len(before)}
        \ {<<after[k].ip, after[k].port>> : k \in 1..Len(after)}

\* delete_old_results(days), the pairs whose rows it removed written down
PruneOld ==
    /\ \E d \in Days :
          LET a == Sq_delete_old_results(sq, now, d)
              b == Js_delete_old_results(js, now, d)
          IN  /\ sq' = a.db
              /\ js' = b.file
              /\ last' = [op |-> "prune",
                          sqGone |-> GonePairs(sq.results, a.db.results),
                          jsGone |-> GonePairs(Js_load_data(js).results,
                                               Js_load_data(b.file).results)]
    /\ UNCHANGED <<now, nextId, sqCur, jsCur>>
    /\ UNCHANGED notLockstep

\* the next call after delete_old_results is save_scan_session with the
\* session of a new run
SaveAfterPrune ==
    /\ last.op = "prune"
    /\ nextId < Len(SessionIds)
    /\ \E s \in NewSessions(SessionIds[nextId + 1], now) :
          LET a == Sq_save_scan_session(sq, s)
              b == Js_save_scan_session(js, s)
          IN  /\ sq' = a.db
              /\ js' = b.file
              /\ sqCur' = <<a.session>>
              /\ jsCur' = <<b.session>>
              /\ last' = [op |-> "save_pruned", fresh |-> TRUE,
                          sqGone |-> last.sqGone, jsGone |-> last.jsGone]
    /\ nextId' = nextId + 1
    /\ now' = now
    /\ UNCHANGED notLockstep

\* the next call after delete_old_results is run_scan's second save of the
\* session saved last
ResaveAfterPrune ==
    /\ last.op = "prune"
    /\ sqCur # << >>
    /\ LET a == Sq_save_scan_session(sq, Recount(sqCur[1]))
           b == Js_save_scan_session(js, Recount(jsCur[1]))
       IN  /\ sq' = a.db
           /\ js' = b.file
           /\ sqCur' = <<a.session>>
           /\ jsCur' = <<b.session>>
           /\ last' = [op |-> "save_pruned", fresh |-> FALSE,
                       sqGone |-> last.sqGone, jsGone |-> last.jsGone]
    /\ UNCHANGED <<now, nextId>>
    /\ UNCHANGED notLockstep

NextPrune == SaveNew \/ Tick \/ PruneOld \/ SaveAfterPrune \/ ResaveAfterPrune

SpecPrune == Init /\ [][NextPrune]_vars

(***************************************************************************)
(* SpecAnalyze: BannerAnalyzer.analyze applied to banners put together     *)
(* from product tokens.                                                    *)
(***************************************************************************)
\* most tokens of one banner
MaxTokens == 2

\* what banners are made of: product tokens the table knows, with and
\* without a version, a word it does not know, and a line break
Tokens ==
    {"Apache/2.4.41", "nginx", "NGINX/1.18.0", "OpenSSH_8.9p1", "OpenSSL", "Tomcat-9.0",
     "hello", "\n"}

\* " ".join(ts)
RECURSIVE Join(_)
Join(ts) ==
    IF ts = << >> THEN ""
    ELSE IF Len(ts) = 1 THEN ts[1]
    ELSE ts[1] \o " " \o Join(Tail(ts))

Banners == {Join(ts) : ts \in UNION {[1..n -> Tokens] : n \in 0..MaxTokens}}

\* analyze(text)
Analyze ==
    /\ verdict = << >>
    /\ verdict' = <<analyze(text)>>
    /\ UNCHANGED <<text, response, probeIn, probeOut>>
    /\ UNCHANGED <<backend, storeVars, lockstepVars, concVars, scanVars, notifyVars>>
    /\ UNCHANGED <<parseVars, orderVars>>

InitA ==
    /\ InitStore /\ InitLockstep /\ InitConc /\ InitScan /\ InitNotify
    /\ InitParse /\ InitOrder
    /\ config = RunConfig
    /\ backend = "sqlite"
    /\ text \in Banners \cup {None}
    /\ verdict = << >>
    /\ response = << >>
    /\ probeIn = << >>
    /\ probeOut = << >>

NextAnalyze == Analyze

SpecAnalyze == InitA /\ [][NextAnalyze]_vars

(***************************************************************************)
(* SpecProbe: _get_banner_for_port applied to one result of the bulk scan, *)
(* against services that send different responses.                         *)
(***************************************************************************)
\* n characters that match no pattern
RECURSIVE Pad(_)
Pad(n) ==
    IF n = 0 THEN ""
    ELSE IF n % 2 = 0 THEN Pad(n \div 2) \o Pad(n \div 2)
    ELSE "x" \o Pad(n - 1)

\* what a probed service can send before the read returns: nothing (it
\* closed the connection), a banner, bytes that are not UTF-8 around one,
\* and responses longer than the banner length bound
Responses ==
    {<< >>, <<Invalid>>, <<Invalid, Text("OpenSSL"), Invalid>>,
     <<Text("Open"), Invalid, Text("SSH_7.4")>>,
     <<Text(Pad(BannerLimit - 3) \o "OpenSSH_8.9")>>,
     <<Text(Pad(BannerLimit) \o " nginx")>>,
     <<Text("Apache/2.4.41 " \o Pad(BannerLimit))>>}
    \cup {<<Text(b)>> : b \in {Join(<<t>>) : t \in Tokens}}

\* the ways one probe can go, the exception of wait_closed() told apart
ProbeEnds == ProbeOutcomes \cup {"close_error"}

\* _get_banner_for_port(probeIn)
Probe ==
    /\ probeOut = << >>
    /\ \E o \in ProbeEnds :
          probeOut' = <<[how |-> o, ret |-> get_banner_for_port_reading(probeIn[1], o, response)]>>
    /\ UNCHANGED <<text, verdict, response, probeIn>>
    /\ UNCHANGED <<backend, storeVars, lockstepVars, concVars, scanVars, notifyVars>>
    /\ UNCHANGED <<parseVars, orderVars>>

InitB ==
    /\ InitStore /\ InitLockstep /\ InitConc /\ InitScan /\ InitNotify
    /\ InitParse /\ InitOrder
    /\ config = RunConfig
    /\ backend = "sqlite"
    /\ text = ""
    /\ verdict = << >>
    /\ response \in Responses
    /\ \E r \in ResultPool(now) : probeIn = <<r>>
    /\ probeOut = << >>

NextProbe == Probe

SpecProbe == InitB /\ [][NextProbe]_vars

(***************************************************************************)
(* Properties of the store, checked under Spec.                            *)
(***************************************************************************)
\* no two rows of the sequence have the same (ip, port)
UniquePairs(rows) ==
    \A i, j \in 1..Len(rows) :
        (rows[i].ip = rows[j].ip /\ rows[i].port = rows[j].port) => i = j

\* C1: after any sequence of save_scan_session and delete_old_results calls
\* from an empty store, each backend holds at most one row per (ip, port),
\* also when one session's result list repeats a pair.
C1_UniquePairs ==
    /\ UniquePairs(sq.results)
    /\ UniquePairs(Js_load_data(js).results)

\* a second session whose result list names one pair twice has been saved
C1_Witness ==
    /\ last.op = "save"
    /\ nextId = 2
    /\ Len(sqCur[1].results) = 2
    /\ sqCur[1].results[1].ip = sqCur[1].results[2].ip
    /\ sqCur[1].results[1].port = sqCur[1].results[2].port
    /\ Len(sq.results) = 2
    /\ Len(Js_load_data(js).results) = 2

\* C2: a save of a session with a result whose (ip, port) already has a
\* stored row leaves that result object with is_new = false and returns
\* success, on both backends.
C2_DuplicateMarkedNotNew ==
    [][(last'.op \in {"save", "resave"}) =>
          /\ last'.sqRet /\ last'.jsRet
          /\ \A i \in 1..Len(sqCur'[1].results) :
                HasPair(sq.results, sqCur'[1].results[i].ip, sqCur'[1].results[i].port)
                    => ~sqCur'[1].results[i].is_new
          /\ \A i \in 1..Len(jsCur'[1].results) :
                HasPair(Js_load_data(js).results,
                        jsCur'[1].results[i].ip, jsCur'[1].results[i].port)
                    => ~jsCur'[1].results[i].is_new]_vars

\* the is_new flags of a session object's results
Flags(cur) ==
    IF cur = << >> THEN << >>
    ELSE [i \in 1..Len(cur[1].results) |-> cur[1].results[i].is_new]

\* C5: the two backends return equal values at every step and leave equal
\* is_new flags on the saved results (stated for the return values of
\* save_scan_session and delete_old_results and for get_scan_session,
\* check_is_new_result and get_statistics).
C5_BackendsEquivalent ==
    /\ last.op \in {"save", "resave", "delete"} => last.sqRet = last.jsRet
    /\ Flags(sqCur) = Flags(jsCur)
    /\ \A k \in 1..Len(SessionIds) :
          Sq_get_scan_session(sq, SessionIds[k]) = Js_get_scan_session(js, SessionIds[k])
    /\ \A r \in ResultPool(now) :
          Sq_check_is_new_result(sq, r) = Js_check_is_new_result(js, r)
    /\ Sq_get_statistics(sq) = Js_get_statistics(js)

\* what a reader of session id sees of its results and counts
Sq_Read(db, id) ==
    LET got == Sq_get_scan_session(db, id)
    IN  IF got = << >> THEN << >>
        ELSE <<got[1].results, got[1].total_results, got[1].new_results>>

Js_Read(file, id) ==
    LET got == Js_get_scan_session(file, id)
    IN  IF got = << >> THEN << >>
        ELSE <<got[1].results, got[1].total_results, got[1].new_results>>

\* C9: once a session is saved (every saved session is terminal), each later
\* get_scan_session(id) returns the same result list, total_results and
\* new_results across saves of other sessions and delete_old_results calls.
C9_ReadsStable ==
    [][\A k \in 1..Len(SessionIds) :
          LET id == SessionIds[k]
          IN  (/\ last'.op \in {"save", "resave", "delete"}
               /\ (last'.op = "delete" \/ sqCur'[1].id # id))
                  => /\ Sq_Read(sq, id) # << >> => Sq_Read(sq', id) = Sq_Read(sq, id)
                     /\ Js_Read(js, id) # << >> => Js_Read(js', id) = Js_Read(js, id)]_vars

\* the pair of result i of a session object
PairOf(cur, i) == <<cur[1].results[i].ip, cur[1].results[i].port>>

\* result i of the session just saved is the first observation of its
\* pair: no row for the pair in the rows read before the save, and no
\* earlier result of the list with the same pair
FirstObservation(rows, cur, i) ==
    /\ ~HasPair(rows, PairOf(cur, i)[1], PairOf(cur, i)[2])
    /\ \A j \in 1..(i - 1) : PairOf(cur, j) # PairOf(cur, i)

\* was result i of the session handed to the save flagged new (a session
\* saved for the first time holds fresh results, all with is_new = true)
WasNew(op, before, i) == op = "save" \/ before[1].results[i].is_new

\* is there a row for the pair written by the save of session sid
RowOf(rows, pair, sid) ==
    \E k \in 1..Len(rows) :
        rows[k].ip = pair[1] /\ rows[k].port = pair[2] /\ rows[k].scan_id = sid

\* C24: when a session is saved and a result's (ip, port) has no stored row
\* and does not occur earlier in the session's result list, the save
\* inserts a row for the pair and a result that was flagged new stays
\* flagged new, on both backends.
C24_FirstObservationNew ==
    [][(last'.op \in {"save", "resave"}) =>
          /\ \A i \in 1..Len(sqCur'[1].results) :
                FirstObservation(sq.results, sqCur', i) =>
                    /\ RowOf(sq'.results, PairOf(sqCur', i), sqCur'[1].id)
                    /\ WasNew(last'.op, sqCur, i) => sqCur'[1].results[i].is_new
          /\ \A i \in 1..Len(jsCur'[1].results) :
                FirstObservation(Js_load_data(js).results, jsCur', i) =>
                    /\ RowOf(Js_load_data(js').results, PairOf(jsCur', i), jsCur'[1].id)
                    /\ WasNew(last'.op, jsCur, i) => jsCur'[1].results[i].is_new]_vars

\* two results on one host were saved to the empty store: both are flagged
\* new and the statistics report two results on one host
C24_Witness ==
    /\ last.op = "save"
    /\ nextId = 1
    /\ Len(sqCur[1].results) = 2
    /\ sqCur[1].results[1].ip = sqCur[1].results[2].ip
    /\ sqCur[1].results[1].port # sqCur[1].results[2].port
    /\ \A i \in 1..2 : sqCur[1].results[i].is_new /\ jsCur[1].results[i].is_new
    /\ Sq_get_statistics(sq).total_results = 2
    /\ Sq_get_statistics(sq).unique_hosts = 1
    /\ Js_get_statistics(js).total_results = 2
    /\ Js_get_statistics(js).unique_hosts = 1

\* the part of get_statistics computed from the result rows
ResultStatistics(st) == <<st.total_results, st.unique_hosts, st.popular_ports>>

\* every pair of the session just saved had a row in the rows read before
AllStored(rows, cur) ==
    \A i \in 1..Len(cur[1].results) :
        HasPair(rows, PairOf(cur, i)[1], PairOf(cur, i)[2])

\* C25: a save of a session all of whose (ip, port) pairs are already
\* stored leaves total_results, unique_hosts and popular_ports of
\* get_statistics as they were, on both backends.
C25_ResaveKeepsResultStatistics ==
    [][(last'.op \in {"save", "resave"}) =>
          /\ AllStored(sq.results, sqCur') =>
                ResultStatistics(Sq_get_statistics(sq'))
                    = ResultStatistics(Sq_get_statistics(sq))
          /\ AllStored(Js_load_data(js).results, jsCur') =>
                ResultStatistics(Js_get_statistics(js'))
                    = ResultStatistics(Js_get_statistics(js))]_vars

\* a session of two results was saved again before any row could be pruned
\* (no row is older than a cutoff at time 0): every result met its own row,
\* and the statistics still count two rows
C25_Witness ==
    /\ last.op = "resave"
    /\ now = 0
    /\ Len(sqCur[1].results) = 2
    /\ \A i \in 1..2 : ~sqCur[1].results[i].is_new
    /\ Sq_get_statistics(sq).total_results = 2
    /\ Js_get_statistics(js).total_results = 2

\* the rows not older than the cutoff t - days
NotOlder(rows, t, days) == SelectSeq(rows, LAMBDA r : r.timestamp >= t - days)

\* C26: delete_old_results(days) removes exactly the result rows whose
\* timestamp is older than now - days, returns the number of rows it
\* removed, and leaves the session rows and the other result rows as they
\* were, on both backends.
C26_DeleteOldExact ==
    [][(last'.op = "delete") =>
          /\ sq'.results = NotOlder(sq.results, now, last'.days)
          /\ last'.sqRet = Len(sq.results) - Len(sq'.results)
          /\ sq'.sessions = sq.sessions
          /\ Js_load_data(js').results
                = NotOlder(Js_load_data(js).results, now, last'.days)
          /\ last'.jsRet
                = Len(Js_load_data(js).results) - Len(Js_load_data(js').results)
          /\ Js_load_data(js').sessions = Js_load_data(js).sessions]_vars

\* st is what the claim says of the stored sessions and result rows
StatisticsOf(st, data) ==
    LET rows == data.results
        ports == {rows[k].port : k \in 1..Len(rows)}
        count(p) == Cardinality({k \in 1..Len(rows) : rows[k].port = p})
        top == DOMAIN st.popular_ports
    IN  /\ st.total_results = Len(rows)
        /\ st.unique_hosts = Cardinality({rows[k].ip : k \in 1..Len(rows)})
        /\ st.total_scans =
              Cardinality({k \in 1..Len(data.sessions) :
                              data.sessions[k].status = "completed"})
        /\ top \subseteq ports
        /\ Cardinality(top) =
              (IF Cardinality(ports) < PopularPortsLimit
               THEN Cardinality(ports) ELSE PopularPortsLimit)
        /\ \A p \in top : st.popular_ports[p] = count(p)
        /\ \A p \in top, q \in ports \ top : count(p) >= count(q)

\* C27: after any sequence of saves and prunes, get_statistics returns
\* total_results = number of result rows, unique_hosts = number of distinct
\* ips among them, total_scans = number of stored sessions with status
\* completed, popular_ports = the at most 10 ports with the highest row
\* counts, on both backends.
C27_StatisticsExact ==
    /\ StatisticsOf(Sq_get_statistics(sq), sq)
    /\ StatisticsOf(Js_get_statistics(js), Js_load_data(js))

\* got lists every row of rows exactly once, most recent first
AllMostRecentFirst(got, rows) ==
    /\ Len(got) = Len(rows)
    /\ \A k \in 1..Len(rows) :
          Cardinality({i \in 1..Len(got) : got[i] = RowResult(rows[k])}) = 1
    /\ \A i \in 1..(Len(got) - 1) : got[i].timestamp >= got[i + 1].timestamp

\* C28: after any sequence of saves, get_all_results returns every stored
\* result row exactly once, ordered by timestamp from the most recent to
\* the oldest, on both backends.
C28_AllResultsMostRecentFirst ==
    /\ \A got \in Sq_get_all_results(sq) : AllMostRecentFirst(got, sq.results)
    /\ Sq_get_all_results(sq) # {}
    /\ AllMostRecentFirst(Js_get_all_results(js), Js_load_data(js).results)

\* the summary values of a session object or of a stored session row
Summary(x) ==
    <<x.id, x.status, x.start_time, x.end_time, x.targets, x.total_results,
      x.new_results>>

\* exactly one row of the sequence has the id of session object cur, and it
\* holds cur's summary values
OneRowHolding(sessions, cur) ==
    /\ Cardinality({k \in 1..Len(sessions) : sessions[k].id = cur[1].id}) = 1
    /\ \A k \in 1..Len(sessions) :
          sessions[k].id = cur[1].id => Summary(sessions[k]) = Summary(cur[1])

\* the result rows, without their order
RowSet(rows) == {rows[k] : k \in 1..Len(rows)}

\* C29: after a session is saved, on both backends there is exactly one
\* summary row for its id and it holds the values of that save; and a
\* save of the session saved just before leaves the set of result rows as
\* the earlier save left it.
C29_SaveIdempotent ==
    [][(last'.op \in {"save", "resave"}) =>
          /\ OneRowHolding(sq'.sessions, sqCur')
          /\ OneRowHolding(Js_load_data(js').sessions, jsCur')
          /\ (last'.op = "resave" /\ last.op \in {"save", "resave"}) =>
                /\ RowSet(sq'.results) = RowSet(sq.results)
                /\ RowSet(Js_load_data(js').results) = RowSet(Js_load_data(js).results)]_vars

\* a session of two results saved a second time, as run_scan does: its one
\* summary row now holds the recomputed new_results, the rows are the two
\* of the first save
C29_Witness ==
    /\ last.op = "resave"
    /\ nextId = 1
    /\ now = 0
    /\ Len(sqCur[1].results) = 2
    /\ Len(sq.sessions) = 1
    /\ sq.sessions[1].new_results = 2
    /\ Len(sq.results) = 2
    /\ Len(Js_load_data(js).sessions) = 1
    /\ Len(Js_load_data(js).results) = 2

(***************************************************************************)
(* Properties of concurrent saves, checked under SpecConc.                 *)
(***************************************************************************)
\* the rows of (ip, port) = x
RowsOf(rows, x) == {k \in 1..Len(rows) : rows[k].ip = x[1] /\ rows[k].port = x[2]}

\* the caller's call has returned True with x among its results, x not
\* stored when the call began
SavedUnstored(p, x) ==
    /\ cpc[p] = "returned"
    /\ cret[p]
    /\ RowsOf(csess[p][1].results, x) # {}
    /\ RowsOf(cpre[p].results, x) = {}

\* the caller's run counts x as new (main.py: r.is_new after the save)
CountsNew(p, x) ==
    \E k \in RowsOf(csess[p][1].results, x) : csess[p][1].results[k].is_new

\* C3: two runs concurrently save sessions with the same, previously
\* unstored (ip, port): in every interleaving exactly one row for the pair
\* ends up stored and at most one run ends with is_new = true for it.
C3_OneRowOneNew ==
    \A x \in Pairs :
        (\A p \in Procs : SavedUnstored(p, x))
            => /\ Cardinality(RowsOf(View.results, x)) = 1
               /\ \E p \in Procs : ~CountsNew(p, x)

\* every row of data a is a row of data b
Within(a, b) ==
    /\ \A k \in 1..Len(a.sessions) : \E j \in 1..Len(b.sessions) : b.sessions[j] = a.sessions[k]
    /\ \A k \in 1..Len(a.results) : \E j \in 1..Len(b.results) : b.results[j] = a.results[k]

\* the caller's call returned False or the caller died inside it
Failed(p) == cpc[p] = "crashed" \/ (cpc[p] = "returned" /\ ~cret[p])

\* C4: save_scan_session is atomic: after a call that returned False or
\* crashed the store holds neither its summary row nor a result row it tried
\* to add, and everything stored before the call is still readable; a reader
\* never sees the summary row without the session's result rows.
C4_SaveAtomic ==
    \A p \in Procs :
        /\ Failed(p) =>
              /\ \A k \in 1..Len(View.sessions) : View.sessions[k].id # csess[p][1].id
              /\ \A k \in 1..Len(View.results) : View.results[k].scan_id # csess[p][1].id
              /\ Within(cpre[p], View)
        /\ (csess[p] # << >> /\ \E k \in 1..Len(View.sessions) :
                                     View.sessions[k].id = csess[p][1].id)
              => \A i \in 1..Len(csess[p][1].results) :
                    HasPair(View.results, csess[p][1].results[i].ip,
                            csess[p][1].results[i].port)

(***************************************************************************)
(* Properties of one run, checked under SpecScan.                          *)
(***************************************************************************)
\* scan_async has returned the session of the current run
Scanned == session # << >> /\ rpc \notin {"masscan", "probing"}

\* the session has reached Completed or Failed
Terminal(s) == s # << >> /\ s[1].status \in {"completed", "failed"}

\* C6: if the bulk scan step raises (nonzero exit code or timeout), the
\* session scan_async returns has status Failed, its errors list contains the
\* cause, end_time is set, and no banner probe was started.
C6_BulkFailureFailsSession ==
    (Scanned /\ bulk \in BulkErrors) =>
        /\ session[1].status = "failed"
        /\ \E k \in 1..Len(session[1].errors) : session[1].errors[k] # ""
        /\ session[1].end_time # NoTime
        /\ parsed = << >> /\ tasks = << >> /\ probeErr = "none"

\* C7: whenever the bulk scan step succeeds, scan_async returns a Completed
\* session, whatever the outcomes of the probes.
C7_ProbingNeverFails ==
    (Scanned /\ bulk = "ok") => session[1].status = "completed"

\* scan_async has just returned after a batch of two probes, one of which
\* ended by an exception other than a timeout or a refusal
C7_Witness ==
    /\ rpc = "scanned"
    /\ bulk = "ok"
    /\ Len(parsed) = 2
    /\ probeErr = "other"
    /\ session[1].status = "completed"

\* the frame of a terminal session: b differs from a at most in new_results
\* and in is_new flags that went from true to false
TerminalFrame(a, b) ==
    /\ b.id = a.id /\ b.status = a.status /\ b.targets = a.targets
    /\ b.start_time = a.start_time /\ b.end_time = a.end_time
    /\ b.errors = a.errors /\ b.total_results = a.total_results
    /\ Len(b.results) = Len(a.results)
    /\ \A k \in 1..Len(a.results) :
          /\ [b.results[k] EXCEPT !.is_new = TRUE] = [a.results[k] EXCEPT !.is_new = TRUE]
          /\ b.results[k].is_new => a.results[k].is_new

\* C8 as stated: once the session is Completed or Failed, end_time has been
\* assigned exactly once and no later step of the run changes any field of
\* the session or of its results.
C8_SessionImmutable ==
    [][(Terminal(session) /\ session' # << >> /\ session'[1].id = session[1].id)
          => (session' = session /\ endStamps' = 1)]_vars

\* C8 as amended: once the session is Completed or Failed, end_time has been
\* assigned exactly once, and a later step of the run changes nothing of the
\* session but new_results (the count recomputation) and is_new flags, which
\* only a save_scan_session call changes and only from true to false.
C8_TerminalFrame ==
    [][(Terminal(session) /\ session' # << >> /\ session'[1].id = session[1].id)
          => /\ endStamps = 1 /\ endStamps' = 1
             /\ TerminalFrame(session[1], session'[1])
             /\ session'[1].new_results # session[1].new_results => rpc' = "counted"
             /\ session'[1].results # session[1].results
                   => rpc' \in {"saved1", "saved2"}]_vars

\* the second run's session, Completed, after its first save on SQLite and
\* the recomputation: one result was marked not new, one is counted as new
C8_Witness ==
    /\ rpc = "counted"
    /\ backend = "sqlite"
    /\ session[1].status = "completed"
    /\ endStamps = 1
    /\ session[1].new_results = 1
    /\ Len(session[1].results) = 2
    /\ \E k \in 1..2 : ~session[1].results[k].is_new

\* C10: the list _get_banners_async returns holds exactly one entry for each
\* input result, with the same (ip, port), and nothing else.
C10_NoResultDropped ==
    (Scanned /\ bulk = "ok") =>
        /\ Len(session[1].results) = Len(parsed)
        /\ \A k \in 1..Len(parsed) :
              /\ session[1].results[k].ip = parsed[k].ip
              /\ session[1].results[k].port = parsed[k].port

\* scan_async has just returned after a batch of two probes of which the
\* first read no banner
C10_Witness ==
    /\ rpc = "scanned"
    /\ bulk = "ok"
    /\ Len(parsed) = 2
    /\ probeErr \in {"quiet", "other"}
    /\ Len(session[1].results) = 2
    /\ session[1].results[1].banner = None

\* C11: a probe whose connection is refused, whose connect times out or
\* whose read times out leaves the result with the banner and the service it
\* had before probing (no banner, the port-table guess), and scan_async goes
\* on only when every probe of the batch has run to its end.
C11_QuietProbeLeavesResult ==
    [][rpc = "probing" =>
          /\ \A k \in 1..Len(tasks) :
                (~tasks[k].done /\ tasks'[k].done /\ tasks'[k].how = "quiet")
                    => /\ tasks'[k].ret = [raised |-> FALSE, value |-> <<parsed[k]>>]
                       /\ parsed[k].banner = None
                       /\ parsed[k].service = get_service_name(parsed[k].port)
          /\ rpc' = "scanned"
                => \A k \in 1..Len(tasks) :
                      /\ tasks[k].done
                      /\ tasks[k].how = "quiet" => session'[1].results[k] = parsed[k]]_vars

\* scan_async has returned after a batch of two probes: the first read a
\* banner, the second was refused or timed out and kept its port-table guess
C11_Witness ==
    /\ rpc = "scanned"
    /\ bulk = "ok"
    /\ probeErr = "quiet"
    /\ Len(session[1].results) = 2
    /\ session[1].results[1].banner # None
    /\ session[1].results[2].banner = None
    /\ session[1].results[2].service = get_service_name(session[1].results[2].port)

\* C14: within one notify_all call each registered channel's send is invoked
\* exactly once whatever its outcome, and one run_scan calls notify_all at
\* most once.
C14_NoRetry ==
    /\ notified <= 1
    /\ \A k \in 1..Len(sends) : sends[k] <= 1
    /\ rpc = "notified" =>
          /\ Len(sends) = Len(notifiers)
          /\ \A k \in 1..Len(notifiers) : sends[k] = 1

\* the run has notified once; no send succeeded and each was made once
C14_Witness ==
    /\ rpc = "notified"
    /\ notified = 1
    /\ Len(notifiers) = 2
    /\ notifyRet.value = 0
    /\ sends = <<1, 1>>

\* run_scan is past its count recomputation
Counted == session # << >> /\ rpc \in {"counted", "saved2", "notified"}

\* C15: in a run whose completed session has zero new results no channel's
\* send is invoked, and notify_all is invoked only when some result of the
\* session has an (ip, port) that was not in the store before this run.
C15_NotifyOnlyForNew ==
    /\ (Counted /\ session[1].new_results = 0) =>
          \A k \in 1..Len(sends) : sends[k] = 0
    /\ (Counted /\ notified > 0) =>
          \E k \in 1..Len(session[1].results) :
              <<session[1].results[k].ip, session[1].results[k].port>> \notin runPre

\* C16: whenever the session's summary row is visible in the store, its
\* total_results is the length of the session's result list and its
\* new_results is the number of those results with is_new true.
C16_SummaryCountsRecomputed ==
    session # << >> =>
        \A k \in 1..Len(View.sessions) :
            View.sessions[k].id = session[1].id =>
                /\ View.sessions[k].total_results = Len(session[1].results)
                /\ View.sessions[k].new_results = CountNew(session[1].results)

\* C19: when the bulk scan exceeds its timeout, the external process is no
\* longer running once _run_masscan has raised.
C19_TimeoutKillsProcess ==
    (Scanned /\ bulk = "timeout") => proc # "running"

\* C20: once _run_masscan has returned or raised, on whatever path, the
\* output file of the run does not exist.
C20_OutputFileRemoved ==
    (session # << >> /\ rpc # "masscan") => ~outFile

(***************************************************************************)
(* Properties of runs with failing saves, checked under SpecScanFaults.    *)
(***************************************************************************)
\* C17: when the first save_scan_session of a run returns False, the run
\* counts zero new results and sends no notification.
C17_FailedSaveNothingNew ==
    (Counted /\ ~saved[1]) => (session[1].new_results = 0 /\ notified = 0)

\* C18: run_scan returns False if and only if the bulk scan step failed.
C18_OnlyBulkFailureFailsRun ==
    (rpc = "idle" /\ session # << >>) => (~runRet <=> bulk \in BulkErrors)

(***************************************************************************)
(* Properties of the notification manager, checked under SpecNotify.       *)
(***************************************************************************)
\* C12: notify_all never raises and returns exactly the number of registered
\* channels whose send returned True, whatever each send did (True, False,
\* an exception); every channel's send is issued, and with no registered
\* channel it returns 0.
C12_NotifyAllCounts ==
    npc = "returned" =>
        /\ ~notifyRet.raised
        /\ notifyRet.value = Cardinality({k \in 1..Len(notifiers) : outcomes[k] = "true"})
        /\ Len(sends) = Len(notifiers)
        /\ \A k \in 1..Len(notifiers) : sends[k] >= 1
        /\ notifiers = << >> => notifyRet.value = 0

\* three channels are registered; the first send raised, the second returned
\* True, the third returned False, and notify_all returned 1
C12_Witness ==
    /\ npc = "returned"
    /\ Len(notifiers) = 3
    /\ outcomes = <<"raises", "true", "false">>
    /\ notifyRet = [raised |-> FALSE, value |-> 1]

\* a required field of the channel's section of the configuration is missing
\* or empty
Misconfigured(kind) ==
    CASE kind = "telegram" ->
             ~Truthy(config.telegram.token) \/ ~Truthy(config.telegram.chat_id)
      [] kind = "email" ->
             \/ ~Truthy(config.email.smtp_server) \/ ~TruthyInt(config.email.smtp_port)
             \/ ~Truthy(config.email.sender_email) \/ ~Truthy(config.email.sender_password)
             \/ ~Truthy(config.email.recipient)
      [] OTHER -> ~Truthy(config.discord.webhook_url)

\* C13: the manager's notifiers are all enabled, none is a channel whose
\* required configuration is missing or empty, and notify_all calls send on
\* the registered notifiers only.
C13_OnlyEnabledRegistered ==
    /\ \A k \in 1..Len(notifiers) :
          is_enabled(notifiers[k]) /\ ~Misconfigured(notifiers[k].kind)
    /\ Len(sends) <= Len(notifiers)

\* Email is enabled with smtp_port 0 and Discord with an empty webhook_url;
\* the manager was built with Telegram alone and notify_all has called it
C13_Witness ==
    /\ npc = "returned"
    /\ config.email.enabled /\ config.email.smtp_port = <<0>>
    /\ config.discord.enabled /\ config.discord.webhook_url = ""
    /\ Len(notifiers) = 1
    /\ notifiers[1].kind = "telegram"
    /\ sends = <<1>>

(***************************************************************************)
(* Order of the steps of a run, checked under SpecScan.                    *)
(***************************************************************************)
\* the steps of run_scan in the order of its text
StepRank ==
    [x \in {"idle", "masscan", "probing", "scanned", "saved1", "counted",
            "saved2", "notified"} |->
        CASE x = "idle" -> 0
          [] x = "masscan" -> 1
          [] x = "probing" -> 2
          [] x = "scanned" -> 3
          [] x = "saved1" -> 4
          [] x = "counted" -> 5
          [] x = "saved2" -> 6
          [] OTHER -> 7]

\* C22: one run executes bulk scan, probe, persist, notify in this order: a
\* probe exists only after the bulk scan has returned its list; scan_async
\* returns, and so save_scan_session is called, only when every probe of
\* the batch has ended; notify_all is called only after both
\* save_scan_session calls have returned; and no step goes back to an
\* earlier one within a run.
C22_StepsInOrder ==
    [][/\ (tasks' # << >>) => (bulk' = "ok" /\ rpc' = "probing")
       /\ (rpc = "probing" /\ rpc' # "probing") =>
              \A k \in 1..Len(tasks) : tasks[k].done
       /\ (Len(saved') > Len(saved)) =>
              /\ tasks = << >>
              /\ rpc \in {"scanned", "counted"}
              /\ session[1].status = "completed"
       /\ (notified' > notified) => (Len(saved) = 2 /\ rpc = "saved2")
       /\ (rpc' # "idle") => (StepRank[rpc'] >= StepRank[rpc])]_vars

\* a run that scanned, probed, saved twice and notified
C22_Witness ==
    /\ rpc = "notified"
    /\ bulk = "ok"
    /\ probeErr # "none"
    /\ Len(saved) = 2
    /\ notified = 1

(***************************************************************************)
(* Properties of the output parser, checked under SpecParse.               *)
(***************************************************************************)
\* the (ip, port) records of the well-formed lines, in input order
RECURSIVE WellFormedRecords(_, _)
WellFormedRecords(file, i) ==
    IF i > Len(file) THEN << >>
    ELSE (IF file[i].kind = "record" THEN file[i].pairs ELSE << >>)
            \o WellFormedRecords(file, i + 1)

\* C21: for every sequence of lines, the parsed list holds the (ip, port)
\* records of every well-formed line, in input order, and nothing else: a
\* malformed line contributes nothing and does not abort the parse.
C21_CorruptLinesSkipped ==
    ppc = "parsed" =>
        [k \in 1..Len(presults) |-> <<presults[k].ip, presults[k].port>>]
            = WellFormedRecords(outputLines, 1)

(***************************************************************************)
(* Termination of a run, checked under SpecLive.                           *)
(***************************************************************************)
\* C23: every run_scan call eventually returns, whatever the scan process,
\* the probed endpoints and the notification endpoints do.
C23_RunReturns == (rpc # "idle") ~> (rpc = "idle")

(***************************************************************************)
(* Order independence of a save, checked under SpecOrder.                  *)
(***************************************************************************)
\* C30: the stored state after save_scan_session is the same for every
\* order of the session's result list, also when two results share an
\* (ip, port) and differ in service or banner: the same session rows and
\* the same set of result rows, on both backends.
C30_OrderIndependent ==
    perm # << >> =>
        /\ permOut.sqA.sessions = permOut.sqB.sessions
        /\ RowSet(permOut.sqA.results) = RowSet(permOut.sqB.results)
        /\ Js_load_data(permOut.jsA).sessions = Js_load_data(permOut.jsB).sessions
        /\ RowSet(Js_load_data(permOut.jsA).results)
              = RowSet(Js_load_data(permOut.jsB).results)

(***************************************************************************)
(* Newness checks on a failing store, checked under SpecRead.              *)
(***************************************************************************)
\* C31: check_is_new_result returns true only when the store was read
\* successfully and holds no row for the result's (ip, port); when the
\* read fails it does not return true, on both backends.
C31_NoFalseNew ==
    last.op = "check" =>
        /\ last.sqRet => (~last.sqFailed /\ ~HasPair(sq.results, last.ip, last.port))
        /\ last.jsRet => (~last.jsFailed /\ ~HasPair(js.data.results, last.ip, last.port))

(***************************************************************************)
(* Properties of the banner classifier, checked under SpecAnalyze.         *)
(***************************************************************************)
\* the entries of PATTERNS that match the string
Matching(s) == {k \in 1..Len(PATTERNS) : Search(PATTERNS[k], s) # << >>}

\* the earliest declared of them
Earliest(s) == CHOOSE k \in Matching(s) : \A j \in Matching(s) : k <= j

\* C32: for every banner that matches two or more patterns of PATTERNS,
\* analyze returns the service of the earliest declared matching pattern
\* (its name, followed by the version that pattern captured, if any).
C32_FirstMatchWins ==
    (verdict # << >> /\ text # None /\ Cardinality(Matching(text)) >= 2) =>
        verdict[1] = ServiceOf(PATTERNS[Earliest(text)], text)

\* a banner with Apache and OpenSSL tokens has been analysed as Apache
C32_Witness ==
    /\ verdict = <<"Apache 2.4.41">>
    /\ {1, 4} \subseteq Matching(text)

(***************************************************************************)
(* Properties of the banner prober, checked under SpecProbe.               *)
(***************************************************************************)
\* s is the beginning of t
IsPrefix(s, t) == Len(s) <= Len(t) /\ Take(t, Len(s)) = s

\* C33: after a probe the result is returned and is in one of two states:
\* banner and service are what they were before the probe, or the banner is
\* at most 200 characters from the start of the decoded response and the
\* service is analyze(banner); nothing else of the result changes.
C33_BannerAndServiceTogether ==
    probeOut # << >> =>
        /\ ~probeOut[1].ret.raised
        /\ probeOut[1].ret.value # << >>
        /\ LET before == probeIn[1]
               after == probeOut[1].ret.value[1]
           IN  \/ after = before
               \/ /\ after = [before EXCEPT !.banner = after.banner,
                                            !.service = after.service]
                  /\ after.banner # None
                  /\ Len(after.banner) <= BannerLimit
                  /\ IsPrefix(after.banner, Decode(response))
                  /\ after.service = analyze(after.banner)

\* a response longer than the bound has been read and cut, and its service
\* comes from the cut banner
C33_Witness ==
    /\ probeOut # << >>
    /\ Len(Decode(response)) > BannerLimit
    /\ Len(probeOut[1].ret.value[1].banner) = BannerLimit
    /\ probeOut[1].ret.value[1].service = "Apache 2.4.41"

(***************************************************************************)
(* Properties of the returned session, checked under SpecScan.             *)
(***************************************************************************)
\* C34: every session scan_async returned is Completed or Failed, has its
\* end_time set, and is Failed exactly when its errors list is non-empty;
\* and a session that is Completed or Failed keeps its status.
C34_ReturnedSessionTerminal ==
    /\ [](Scanned =>
            /\ session[1].status \in {"completed", "failed"}
            /\ session[1].end_time # NoTime
            /\ (session[1].status = "failed") <=> (session[1].errors # << >>))
    /\ [][(Terminal(session) /\ session' # << >> /\ session'[1].id = session[1].id)
             => session'[1].status = session[1].status]_vars

\* scan_async has returned a session that failed on the timeout of the bulk
\* scan: its errors list holds one entry, the empty string
C34_Witness ==
    /\ Scanned
    /\ bulk = "timeout"
    /\ session[1].status = "failed"
    /\ session[1].errors = <<"">>
    /\ session[1].end_time # NoTime

\* the session of the current run has status Failed
SessionHasFailed == session # << >> /\ session[1].status = "failed"

\* C35: a Failed session has an empty result list and total_results = 0;
\* run_scan makes no save_scan_session call for it, the store holds no row
\* of it and does not change while it is the session of the run, and no
\* notification is sent for it.
C35_FailedSessionNotPersisted ==
    /\ [](SessionHasFailed =>
            /\ session[1].results = << >>
            /\ session[1].total_results = 0
            /\ saved = << >>
            /\ notified = 0
            /\ \A k \in 1..Len(sends) : sends[k] = 0
            /\ \A k \in 1..Len(View.sessions) : View.sessions[k].id # session[1].id
            /\ \A k \in 1..Len(View.results) : View.results[k].scan_id # session[1].id)
    /\ [][(SessionHasFailed /\ session' # << >> /\ session'[1].id = session[1].id)
             => (sq' = sq /\ js' = js)]_vars

\* the second run has returned False on a failed bulk scan, and the store
\* holds the first run's session
C35_Witness ==
    /\ rpc = "idle"
    /\ SessionHasFailed
    /\ session[1].id = SessionIds[2]
    /\ runRet = FALSE
    /\ Len(View.sessions) = 1
    /\ Len(View.results) > 0

(***************************************************************************)
(* The frame of a save, checked under SpecRead.                            *)
(***************************************************************************)
\* every row of before is a row of after, with all its fields
RowsKept(before, after) ==
    \A i \in 1..Len(before) : \E j \in 1..Len(after) : after[j] = before[i]

\* C36: a save_scan_session call removes or alters no result row that was
\* stored before it and no summary row of another session, on either
\* backend, also when the existing store cannot be read.
C36_SaveKeepsOtherData ==
    [][nextId' # nextId =>
          /\ RowsKept(sq.results, sq'.results)
          /\ RowsKept(sq.sessions, sq'.sessions)
          /\ RowsKept(Js_load_data(js).results, Js_load_data(js').results)
          /\ RowsKept(Js_load_data(js).sessions, Js_load_data(js').sessions)]_vars

(***************************************************************************)
(* Saves after a prune, checked under SpecPrune.                           *)
(***************************************************************************)
\* the rows of the pair
PairRows(rows, pair) == SelectSeq(rows, LAMBDA r : r.ip = pair[1] /\ r.port = pair[2])

\* the first result of the session object with the pair
FirstWith(cur, pair) ==
    cur[1].results[CHOOSE i \in 1..Len(cur[1].results) :
                      /\ PairOf(cur, i) = pair
                      /\ \A j \in 1..(i - 1) : PairOf(cur, j) # pair]

\* the save of session object cur left, for each of its pairs that the
\* prune had removed, one row written by this session, flagged as the
\* result is, and the result flagged new if it was before the save
PrunedPairsStoredAnew(gone, rows, before, cur, fresh) ==
    \A i \in 1..Len(cur[1].results) :
        PairOf(cur, i) \in gone =>
            /\ Len(PairRows(rows, PairOf(cur, i))) = 1
            /\ PairRows(rows, PairOf(cur, i))[1].scan_id = cur[1].id
            /\ PairRows(rows, PairOf(cur, i))[1].is_new = FirstWith(cur, PairOf(cur, i)).is_new
            /\ (fresh \/ FirstWith(before, PairOf(cur, i)).is_new)
                  => FirstWith(cur, PairOf(cur, i)).is_new

PairsOf(results) == {<<results[k].ip, results[k].port>> : k \in 1..Len(results)}

\* C38: once run_scan has saved session S, get_scan_session(S.id) returns
\* S's summary with one result for each pair of S that had no row before
\* the run and none for the pairs S re-detected, each carrying S's id; the
\* returned list is never longer than the returned total_results, and is
\* shorter when S re-detected a pair.  For every stored session the
\* returned list is at most as long as the returned total_results.
C38_ReadBackOwnRows ==
    /\ (session # << >> /\ saved # << >>) =>
          LET got == get_scan_session(session[1].id)
          IN  /\ got # << >>
              /\ got[1].total_results = Len(session[1].results)
              /\ PairsOf(got[1].results) = PairsOf(session[1].results) \ runPre
              /\ Len(got[1].results) = Cardinality(PairsOf(got[1].results))
              /\ \A k \in 1..Len(got[1].results) : got[1].results[k].scan_id = session[1].id
              /\ Len(got[1].results) <= got[1].total_results
              /\ (PairsOf(session[1].results) \cap runPre # {})
                    => Len(got[1].results) < got[1].total_results
    /\ \A k \in 1..Len(View.sessions) :
          LET got == get_scan_session(View.sessions[k].id)
          IN  got # << >> /\ Len(got[1].results) <= got[1].total_results

\* the second run found two ports, one of them stored by the first run, and
\* has saved twice: reading its session back gives one result of two
C38_Witness ==
    /\ rpc = "saved2"
    /\ session[1].id = SessionIds[2]
    /\ Len(session[1].results) = 2
    /\ Cardinality(PairsOf(session[1].results) \cap runPre) = 1
    /\ Len(get_scan_session(session[1].id)[1].results) = 1
    /\ get_scan_session(session[1].id)[1].total_results = 2
====
